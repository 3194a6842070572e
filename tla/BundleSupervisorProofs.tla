------------------------ MODULE BundleSupervisorProofs ------------------------
(***************************************************************************)
(* For any number of supervisors, workers, blocks and targets: what is     *)
(* committed to is what is staged, and as long as runs do not overlap the  *)
(* directory resumes and the receipt is for its chain.                     *)
(***************************************************************************)
EXTENDS BundleSupervisor, SequenceTheorems, TLAPS

RunState ==
    [pc : {"idle", "list", "resume", "block", "reduce", "state", "respond", "install", "receipt"},
     worker : Worker \cup {None}, chain : Chain,
     taken : UNION {[1 .. f -> Bundle] : f \in 0 .. FrameCount},
     merged : 0 .. FrameCount, listed : 0 .. BlockCount, left : 0 .. BlockCount]

Working == {"reduce", "state", "respond"}

\* The program counter and the local variables of a run r fit together.
Control(r) ==
    /\ r.pc # "idle" => r.worker \in Worker
    /\ r.pc = "list" => r.chain = <<>>
    /\ r.pc \in {"list", "resume"} => r.taken = <<>> /\ r.merged = 0
    /\ r.pc = "resume" => Len(r.chain) <= r.listed
    /\ r.pc = "block" =>
          /\ r.merged = 0
          /\ Len(r.taken) < FrameCount
          /\ r.taken # <<>> => Len(r.chain) < BlockCount /\ r.left > 0
    /\ r.pc \in Working =>
          Len(r.taken) = FrameCount /\ Len(r.chain) < BlockCount /\ r.left > 0
    /\ r.pc \in {"reduce", "state"} => r.merged < FrameCount
    /\ r.pc = "respond" => r.merged = FrameCount
    /\ r.pc = "install" => Len(r.chain) >= 1 /\ r.left > 0
    /\ r.pc = "receipt" => Len(r.chain) = BlockCount

\* The bundles of a chain are those in the directory.
Staged(chain) == \A j \in DOMAIN chain : chain[j].bundles = artifact[j]

\* So are the bundles of the block that a run r works on.
Taken(r) ==
    r.pc \in {"block"} \cup Working =>
        \A f \in DOMAIN r.taken :
            /\ f \in DOMAIN artifact[Len(r.chain) + 1]
            /\ artifact[Len(r.chain) + 1][f] = r.taken[f]

\* The state files that a run r has found or written are there.
Merged(r) ==
    /\ r.pc \in Working => Len(compact[Len(r.chain) + 1]) >= r.merged
    /\ r.pc = "install" => Len(compact[Len(r.chain)]) = FrameCount

RunInv(r) == Control(r) /\ Staged(r.chain) /\ Taken(r) /\ Merged(r)

\* A checkpoint commits to all blocks up to its own.
CheckpointInv(k) ==
    checkpoint[k] # None => Len(checkpoint[k].chain) = k /\ Staged(checkpoint[k].chain)

\* A state file merges a bundle of every block up to its own.
StateInv(k) ==
    \A f \in DOMAIN compact[k] :
        /\ \A j \in 1 .. k : f \in DOMAIN artifact[j]
        /\ compact[k][f] = [j \in 1 .. k |-> artifact[j][f]]

FilesInv ==
    /\ \A k \in Blocks : CheckpointInv(k) /\ StateInv(k)
    /\ receipt # None => Staged(receipt.chain)

-----------------------------------------------------------------------------
(* As long as runs do not overlap                                          *)

Prefix(chain, j) == [i \in 1 .. j |-> chain[i]]

\* The checkpoint of block j is that of the worker w with the chain up to j.
Continues(j, w, chain) ==
    checkpoint[j] # None /\ checkpoint[j].worker = w /\ checkpoint[j].chain = Prefix(chain, j)

ChainInv(k) ==
    checkpoint[k] # None =>
        /\ \A j \in 1 .. k : Continues(j, checkpoint[k].worker, checkpoint[k].chain)
        /\ Len(compact[k]) = FrameCount

\* The blocks of r that have a checkpoint.
Installed(r) == IF r.pc = "install" THEN Len(r.chain) - 1 ELSE Len(r.chain)

\* The checkpoints are those of the run r, as far as it has looked.
Owns(r) ==
    /\ r.pc # "idle" => \A j \in 1 .. Installed(r) : Continues(j, r.worker, r.chain)
    /\ r.pc = "resume" => \A k \in Blocks : checkpoint[k] # None <=> k <= r.listed
    /\ r.pc \notin {"idle", "list", "resume"} =>
          \A k \in Blocks : checkpoint[k] # None <=> k <= Installed(r)

Alone == \A s, t \in Supervisor : s = t \/ At(s, "idle") \/ At(t, "idle")

Solo ==
    /\ Alone
    /\ \A k \in Blocks : ChainInv(k)
    /\ \A s \in Supervisor : Owns(run[s])
    /\ receipt # None => receipt = checkpoint[BlockCount] /\ \A s \in Supervisor : At(s, "idle")

IInv ==
    /\ TypeOK
    /\ \A s \in Supervisor : RunInv(run[s])
    /\ FilesInv
    /\ ~overlapped => Solo

-----------------------------------------------------------------------------
(* Sequences                                                               *)

(* A function on an initial segment of the numbers is a sequence.          *)
LEMMA SegmentIsSeq ==
  ASSUME NEW S, NEW n \in Nat, NEW c \in [1 .. n -> S]
  PROVE  c \in Seq(S) /\ Len(c) = n /\ DOMAIN c = 1 .. n
BY SeqDef

LEMMA Counts == BlockCount \in Nat \ {0} /\ FrameCount \in Nat \ {0}
BY CountAssumption

LEMMA ChainIsSeq ==
  ASSUME NEW c \in Chain
  PROVE  /\ c \in Seq(Entry) /\ Len(c) \in 0 .. BlockCount /\ DOMAIN c = 1 .. Len(c)
         /\ \A j \in 1 .. Len(c) : c[j] \in Entry
<1>1. PICK n \in 0 .. BlockCount : c \in [1 .. n -> Entry]
  BY DEF Chain
<1>2. n \in Nat
  BY Counts
<1> QED
  BY <1>1, <1>2, SegmentIsSeq

LEMMA FramesAreSeq ==
  ASSUME NEW S, NEW b \in UNION {[1 .. f -> S] : f \in 0 .. FrameCount}
  PROVE  /\ b \in Seq(S) /\ Len(b) \in 0 .. FrameCount /\ DOMAIN b = 1 .. Len(b)
         /\ Len(b) = FrameCount => b \in [1 .. FrameCount -> S]
         /\ \A j \in 1 .. Len(b) : b[j] \in S
<1>1. PICK n \in 0 .. FrameCount : b \in [1 .. n -> S]
  OBVIOUS
<1>2. n \in Nat
  BY Counts
<1> QED
  BY <1>1, <1>2, SegmentIsSeq

(* One more element.                                                       *)
LEMMA AppendIsSegment ==
  ASSUME NEW S, NEW c \in Seq(S), NEW x \in S
  PROVE  /\ Append(c, x) \in [1 .. Len(c) + 1 -> S]
         /\ Len(Append(c, x)) = Len(c) + 1
         /\ DOMAIN Append(c, x) = 1 .. Len(c) + 1
         /\ \A i \in 1 .. Len(c) : Append(c, x)[i] = c[i]
         /\ Append(c, x)[Len(c) + 1] = x
<1>1. /\ Append(c, x) \in Seq(S)
      /\ Len(Append(c, x)) = Len(c) + 1
  BY AppendProperties
<1>2. /\ Append(c, x) \in [1 .. Len(Append(c, x)) -> S]
      /\ DOMAIN Append(c, x) = 1 .. Len(Append(c, x))
  BY <1>1, LenProperties
<1>3. /\ \A i \in 1 .. Len(c) : Append(c, x)[i] = c[i]
      /\ Append(c, x)[Len(c) + 1] = x
  BY AppendProperties
<1> QED
  BY <1>1, <1>2, <1>3

LEMMA AppendFrame ==
  ASSUME NEW S, NEW b \in UNION {[1 .. f -> S] : f \in 0 .. FrameCount},
         Len(b) < FrameCount, NEW x \in S
  PROVE  /\ Append(b, x) \in UNION {[1 .. f -> S] : f \in 0 .. FrameCount}
         /\ Len(Append(b, x)) = Len(b) + 1
         /\ DOMAIN Append(b, x) = 1 .. Len(b) + 1
         /\ \A i \in 1 .. Len(b) : Append(b, x)[i] = b[i]
         /\ Append(b, x)[Len(b) + 1] = x
<1>1. b \in Seq(S) /\ Len(b) \in 0 .. FrameCount
  BY FramesAreSeq
<1>2. Len(b) + 1 \in 0 .. FrameCount
  BY <1>1, Counts
<1> QED
  BY <1>1, <1>2, AppendIsSegment

LEMMA AppendChain ==
  ASSUME NEW c \in Chain, Len(c) < BlockCount, NEW x \in Entry
  PROVE  /\ Append(c, x) \in Chain
         /\ Len(Append(c, x)) = Len(c) + 1
         /\ DOMAIN Append(c, x) = 1 .. Len(c) + 1
         /\ \A i \in 1 .. Len(c) : Append(c, x)[i] = c[i]
         /\ Append(c, x)[Len(c) + 1] = x
<1>1. c \in Seq(Entry) /\ Len(c) \in 0 .. BlockCount
  BY ChainIsSeq
<1>2. Len(c) + 1 \in 0 .. BlockCount
  BY <1>1, Counts
<1>3. Append(c, x) \in [1 .. Len(c) + 1 -> Entry]
  BY <1>1, AppendIsSegment
<1>4. Append(c, x) \in Chain
  BY <1>2, <1>3 DEF Chain
<1> QED
  BY <1>1, <1>4, AppendIsSegment

(* A chain is the prefix of its own length.                                *)
LEMMA WholePrefix ==
  ASSUME NEW c \in Chain
  PROVE  Prefix(c, Len(c)) = c
BY ChainIsSeq DEF Prefix, Chain

(* What the front and the last entry of a chain are.                       *)
LEMMA FrontLast ==
  ASSUME NEW c \in Chain, NEW d \in Chain, Len(c) = Len(d) + 1, Front(c) = d
  PROVE  /\ d = Prefix(c, Len(d))
         /\ Last(c) = c[Len(c)]
<1>1. c \in Seq(Entry) /\ Len(c) \in Nat /\ Len(d) \in Nat
  BY ChainIsSeq, Counts
<1>2. d = SubSeq(c, 1, Len(d))
  BY <1>1 DEF Front
<1> QED
  BY <1>1, <1>2 DEF Prefix, Last

LEMMA PrefixSubSeq ==
  ASSUME NEW c \in Chain, NEW j \in 1 .. Len(c)
  PROVE  /\ Prefix(c, j) \in Chain
         /\ Len(Prefix(c, j)) = j
         /\ Front(Prefix(c, j)) = SubSeq(c, 1, j - 1)
         /\ Last(Prefix(c, j)) = c[j]
<1>1. /\ c \in Seq(Entry) /\ Len(c) \in 0 .. BlockCount
      /\ \A i \in 1 .. Len(c) : c[i] \in Entry
  BY ChainIsSeq
<1>2. j \in 0 .. BlockCount /\ j \in Nat
  BY <1>1, Counts
<1>3. Prefix(c, j) \in [1 .. j -> Entry]
  BY <1>1, <1>2, Counts DEF Prefix
<1>4. Prefix(c, j) \in Seq(Entry) /\ Len(Prefix(c, j)) = j
  BY <1>2, <1>3, SegmentIsSeq
<1>5. Prefix(c, j) \in Chain
  BY <1>2, <1>3 DEF Chain
<1>6. \A i \in 1 .. j : Prefix(c, j)[i] = c[i]
  BY DEF Prefix
<1>7. SubSeq(Prefix(c, j), 1, j - 1) = SubSeq(c, 1, j - 1)
  <2>1. \A i \in 1 .. j - 1 : Prefix(c, j)[i] \in Entry /\ c[i] \in Entry
    BY <1>1, <1>2, <1>3
  <2>2. /\ SubSeq(Prefix(c, j), 1, j - 1) = [i \in 1 .. j - 1 |-> Prefix(c, j)[i]]
        /\ SubSeq(c, 1, j - 1) = [i \in 1 .. j - 1 |-> c[i]]
    BY <1>1, <1>2, <1>4
  <2> QED
    BY <1>2, <1>6, <2>2
<1> QED
  BY <1>2, <1>4, <1>5, <1>6, <1>7 DEF Front, Last

-----------------------------------------------------------------------------
(* Types                                                                   *)

State == UNION {[1 .. k -> Bundle] : k \in Blocks}

LEMMA Typed ==
  ASSUME TypeOK
  PROVE  /\ artifact \in [Blocks -> UNION {[1 .. f -> Bundle] : f \in 0 .. FrameCount}]
         /\ compact \in [Blocks -> UNION {[1 .. f -> State] : f \in 0 .. FrameCount}]
         /\ checkpoint \in [Blocks -> Record \cup {None}]
         /\ receipt \in Record \cup {None}
         /\ run \in [Supervisor -> RunState]
         /\ overlapped \in BOOLEAN
BY DEF TypeOK, RunState, State

LEMMA RunTyped ==
  ASSUME NEW r \in RunState
  PROVE  /\ r.chain \in Chain /\ Len(r.chain) \in 0 .. BlockCount
         /\ DOMAIN r.chain = 1 .. Len(r.chain)
         /\ \A j \in 1 .. Len(r.chain) : r.chain[j] \in Entry
         /\ Len(r.taken) \in 0 .. FrameCount
         /\ DOMAIN r.taken = 1 .. Len(r.taken)
         /\ \A f \in 1 .. Len(r.taken) : r.taken[f] \in Bundle
         /\ Len(r.taken) = FrameCount => r.taken \in Bundles
<1>1. r.chain \in Chain /\ r.taken \in UNION {[1 .. f -> Bundle] : f \in 0 .. FrameCount}
  BY DEF RunState
<1> QED
  BY <1>1, ChainIsSeq, FramesAreSeq DEF Bundles

(* A staged chain has whole blocks.                                        *)
LEMMA StagedWhole ==
  ASSUME NEW c \in Chain, Staged(c), NEW j \in 1 .. Len(c)
  PROVE  artifact[j] \in Bundles /\ j \in Blocks
<1>1. c[j] \in Entry /\ j \in DOMAIN c /\ Len(c) \in 0 .. BlockCount
  BY ChainIsSeq
<1> QED
  BY <1>1, Counts DEF Staged, Entry, Blocks

-----------------------------------------------------------------------------
(* Steps that change one run and no file                                   *)

LEMMA Frame ==
  ASSUME IInv, NEW s \in Supervisor, NEW r \in RunState, Update(s, r), UNCHANGED files,
         overlapped' \in BOOLEAN, RunInv(r),
         ~overlapped' =>
             /\ ~overlapped /\ Owns(r)
             /\ \/ r.pc = "idle"
                \/ receipt = None /\ \A t \in Supervisor : t = s \/ At(t, "idle")
  PROVE  IInv'
<1>1. run' = [run EXCEPT ![s] = r] /\ run \in [Supervisor -> RunState]
  BY Typed DEF IInv, Update
<1>2. run' \in [Supervisor -> RunState]
  BY <1>1
<1>3. TypeOK'
  <2>1. UNCHANGED <<artifact, compact, checkpoint, receipt>> /\ TypeOK
    BY DEF IInv, files
  <2> QED
    BY <1>2, <2>1 DEF TypeOK, RunState
<1>4. run'[s] = r /\ \A t \in Supervisor \ {s} : run'[t] = run[t]
  BY <1>1
<1>5. \A t \in Supervisor : RunInv(run[t])'
  BY <1>4 DEF IInv, RunInv, Control, Staged, Taken, Merged, files
<1>6. FilesInv'
  BY DEF IInv, FilesInv, CheckpointInv, StateInv, Staged, files
<1>7. ASSUME ~overlapped'
      PROVE  Solo'
  <2>1. Solo
    BY <1>7 DEF IInv
  <2>2. Alone'
    BY <1>4, <1>7, <2>1 DEF Solo, Alone, At
  <2>3. \A k \in Blocks : ChainInv(k)'
    BY <2>1 DEF Solo, ChainInv, Continues, files
  <2>4. \A t \in Supervisor : Owns(run[t])'
    BY <1>4, <1>7, <2>1 DEF Solo, Owns, Continues, files
  <2>5. (receipt # None => receipt = checkpoint[BlockCount] /\ \A t \in Supervisor : At(t, "idle"))'
    BY <1>4, <1>7, <2>1 DEF Solo, At, files
  <2> QED
    BY <2>2, <2>3, <2>4, <2>5 DEF Solo
<1> QED
  BY <1>3, <1>5, <1>6, <1>7 DEF IInv

(* What is known of a run under way when no other ever was.                *)
LEMMA Busy ==
  ASSUME IInv, NEW s \in Supervisor, ~At(s, "idle"), ~overlapped
  PROVE  receipt = None /\ Owns(run[s]) /\ \A t \in Supervisor : t = s \/ At(t, "idle")
BY DEF IInv, Solo, Alone

(* The same, for the step of a run under way.                              *)
LEMMA BusyFrame ==
  ASSUME IInv, NEW s \in Supervisor, ~At(s, "idle"), NEW r \in RunState, Update(s, r),
         UNCHANGED <<files, overlapped>>, RunInv(r),
         ~overlapped /\ Owns(run[s]) => Owns(r)
  PROVE  IInv'
<1>1. overlapped' \in BOOLEAN
  BY DEF IInv, TypeOK
<1> QED
  BY <1>1, Busy, Frame

LEMMA IdleTyped == Idle \in RunState /\ (IInv => RunInv(Idle)) /\ Owns(Idle)
<1>1. /\ <<>> \in Chain
      /\ <<>> \in UNION {[1 .. f -> Bundle] : f \in 0 .. FrameCount}
      /\ DOMAIN <<>> = {}
  <2>1. 0 \in 0 .. BlockCount /\ 0 \in 0 .. FrameCount
    BY Counts
  <2>2. <<>> \in [1 .. 0 -> Entry] /\ <<>> \in [1 .. 0 -> Bundle] /\ DOMAIN <<>> = {}
    OBVIOUS
  <2> QED
    BY <2>1, <2>2 DEF Chain
<1>2. Idle \in RunState
  BY <1>1, Counts DEF Idle, RunState
<1>3. Idle.pc = "idle" /\ Idle.chain = <<>>
  BY DEF Idle
<1>4. Control(Idle) /\ Taken(Idle) /\ Merged(Idle) /\ Owns(Idle)
  BY <1>3 DEF Control, Taken, Merged, Owns, Working
<1>5. Staged(Idle.chain)
  BY <1>1, <1>3 DEF Staged
<1> QED
  BY <1>2, <1>4, <1>5 DEF RunInv

LEMMA InitInvariant == Init => IInv
<1> SUFFICES ASSUME Init PROVE IInv
  OBVIOUS
<1>1. Idle \in RunState /\ Owns(Idle)
  BY IdleTyped
<1>2. <<>> \in [1 .. 0 -> Bundle] /\ <<>> \in [1 .. 0 -> State] /\ 0 \in 0 .. FrameCount
      /\ DOMAIN <<>> = {}
  BY Counts
<1>3. TypeOK
  <2>1. artifact \in [Blocks -> UNION {[1 .. f -> Bundle] : f \in 0 .. FrameCount}]
    BY <1>2 DEF Init
  <2>2. compact \in [Blocks -> UNION {[1 .. f -> State] : f \in 0 .. FrameCount}]
    BY <1>2 DEF Init
  <2> QED
    BY <1>1, <2>1, <2>2 DEF Init, TypeOK, RunState, State
<1>4. FilesInv
  <2>1. \A k \in Blocks : DOMAIN compact[k] = {}
    BY <1>2 DEF Init
  <2> QED
    BY <2>1 DEF Init, FilesInv, CheckpointInv, StateInv
<1>5. \A s \in Supervisor : run[s] = Idle /\ Idle.pc = "idle" /\ Idle.chain = <<>>
  BY DEF Init, Idle
<1>6. \A s \in Supervisor : RunInv(run[s])
  BY <1>2, <1>5 DEF RunInv, Control, Staged, Taken, Merged, Working
<1>7. Solo
  BY <1>1, <1>5 DEF Init, Solo, Alone, At, ChainInv
<1> QED
  BY <1>3, <1>4, <1>6, <1>7 DEF IInv

LEMMA EndKeeps ==
  ASSUME IInv, NEW s \in Supervisor, Update(s, Idle), UNCHANGED <<files, overlapped>>
  PROVE  IInv'
<1>1. overlapped' \in BOOLEAN /\ Idle.pc = "idle"
  BY DEF IInv, TypeOK, Idle
<1> QED
  BY <1>1, IdleTyped, Frame

LEMMA StartKeeps ==
  ASSUME IInv, NEW s \in Supervisor, NEW w \in Worker, NEW n \in Blocks, Start(s, w, n)
  PROVE  IInv'
<1> DEFINE r == [Idle EXCEPT !.pc = "list", !.worker = w, !.left = n]
<1>1. /\ r.pc = "list" /\ r.worker = w /\ r.chain = <<>> /\ r.taken = <<>> /\ r.merged = 0
      /\ r \in RunState
  <2>1. r.pc = "list" /\ r.worker = w /\ r.chain = <<>> /\ r.taken = <<>> /\ r.merged = 0
    BY DEF Idle
  <2>2. n \in 0 .. BlockCount
    BY Counts DEF Blocks
  <2>3. Idle \in RunState
    BY IdleTyped
  <2>4. r \in RunState
    BY <2>2, <2>3 DEF RunState
  <2> QED
    BY <2>1, <2>4
<1>2. Len(r.chain) = 0 /\ DOMAIN r.chain = {}
  BY <1>1
<1>3. RunInv(r)
  BY <1>1, <1>2 DEF RunInv, Control, Staged, Taken, Merged, Working
<1>4. Owns(r)
  BY <1>1, <1>2 DEF Owns, Installed
<1>5. Update(s, r) /\ UNCHANGED files /\ receipt = None
  BY DEF Start
<1>6. /\ overlapped' \in BOOLEAN
      /\ ~overlapped' => ~overlapped /\ \A t \in Supervisor : At(t, "idle")
  BY DEF Start, IInv, TypeOK
<1> HIDE DEF r
<1> QED
  BY <1>1, <1>3, <1>4, <1>5, <1>6, Frame

LEMMA ListKeeps ==
  ASSUME IInv, NEW s \in Supervisor, ListCheckpoints(s)
  PROVE  IInv'
<1>1. PICK n \in 0 .. BlockCount :
          /\ \A k \in Blocks : checkpoint[k] # None <=> k <= n
          /\ Update(s, [run[s] EXCEPT !.pc = "resume", !.listed = n])
  BY DEF ListCheckpoints
<1> DEFINE r == [run[s] EXCEPT !.pc = "resume", !.listed = n]
<1>2. run[s] \in RunState /\ RunInv(run[s]) /\ run[s].pc = "list"
  BY Typed DEF IInv, ListCheckpoints, At
<1>3. /\ r.pc = "resume" /\ r.worker = run[s].worker /\ r.chain = <<>>
      /\ r.taken = <<>> /\ r.merged = 0 /\ r.listed = n
      /\ r \in RunState /\ r.worker \in Worker
  BY <1>2 DEF RunState, RunInv, Control
<1>4. Len(r.chain) = 0 /\ DOMAIN r.chain = {} /\ n >= 0
  BY <1>3, Counts
<1>5. RunInv(r)
  BY <1>3, <1>4 DEF RunInv, Control, Staged, Taken, Merged, Working
<1>6. Owns(r)
  BY <1>1, <1>3, <1>4 DEF Owns, Installed
<1>7. ~At(s, "idle") /\ UNCHANGED <<files, overlapped>>
  BY DEF ListCheckpoints, At
<1> HIDE DEF r
<1> QED
  BY <1>1, <1>3, <1>5, <1>6, <1>7, BusyFrame DEF r

LEMMA ResumeKeeps ==
  ASSUME IInv, NEW s \in Supervisor, ResumeCheckpoint(s)
  PROVE  IInv'
<1> DEFINE k == Current(s)
           c == checkpoint[k].chain
           r == [run[s] EXCEPT !.chain = c]
<1>1. run[s] \in RunState /\ RunInv(run[s]) /\ run[s].pc = "resume"
  BY Typed DEF IInv, ResumeCheckpoint, At
<1>2. k = Len(run[s].chain) + 1 /\ k <= run[s].listed /\ run[s].listed \in 0 .. BlockCount
      /\ Len(run[s].chain) \in 0 .. BlockCount
  BY <1>1, RunTyped DEF ResumeCheckpoint, Current, RunState
<1>3. k \in Blocks
  BY <1>2, Counts DEF Blocks
<1>4. checkpoint[k] # None /\ checkpoint[k].worker = run[s].worker
  BY DEF ResumeCheckpoint, Resumable
<1>5. checkpoint[k] \in Record
  BY <1>3, <1>4, Typed DEF IInv
<1>6. c \in Chain /\ Len(c) = k /\ Staged(c)
  BY <1>3, <1>4, <1>5 DEF IInv, FilesInv, CheckpointInv, Record
<1>7. /\ r.pc = "resume" /\ r.worker = run[s].worker /\ r.chain = c
      /\ r.taken = <<>> /\ r.merged = 0 /\ r.listed = run[s].listed
      /\ r \in RunState /\ r.worker \in Worker
  BY <1>1, <1>6 DEF RunState, RunInv, Control
<1>8. RunInv(r)
  BY <1>2, <1>6, <1>7 DEF RunInv, Control, Taken, Merged, Working
<1>9. ~overlapped /\ Owns(run[s]) => Owns(r)
  <2> SUFFICES ASSUME ~overlapped, Owns(run[s])
               PROVE  Owns(r)
    OBVIOUS
  <2>1. ChainInv(k)
    BY <1>3 DEF IInv, Solo
  <2>2. \A j \in 1 .. k : Continues(j, r.worker, c)
    BY <1>4, <1>7, <2>1 DEF ChainInv
  <2> QED
    BY <1>1, <1>6, <1>7, <2>2 DEF Owns, Installed
<1>10. ~At(s, "idle") /\ UNCHANGED <<files, overlapped>> /\ Update(s, r)
  BY DEF ResumeCheckpoint, At
<1> HIDE DEF r
<1> QED
  BY <1>7, <1>8, <1>9, <1>10, BusyFrame

LEMMA EndResumeKeeps ==
  ASSUME IInv, NEW s \in Supervisor, EndResume(s)
  PROVE  IInv'
<1> DEFINE r == [run[s] EXCEPT !.pc = "block"]
<1>1. run[s] \in RunState /\ RunInv(run[s]) /\ run[s].pc = "resume"
  BY Typed DEF IInv, EndResume, At
<1>2. /\ r.pc = "block" /\ r.worker = run[s].worker /\ r.chain = run[s].chain
      /\ r.taken = <<>> /\ r.merged = 0
      /\ r \in RunState /\ r.worker \in Worker
  BY <1>1 DEF RunState, RunInv, Control
<1>3. Len(r.chain) = run[s].listed
  BY <1>1, <1>2, RunTyped, Counts DEF EndResume, Current, RunInv, Control, RunState
<1>4. RunInv(r)
  BY <1>1, <1>2, Counts DEF RunInv, Control, Taken, Merged, Working
<1>5. Owns(run[s]) => Owns(r)
  BY <1>1, <1>2, <1>3 DEF Owns, Installed
<1>6. ~At(s, "idle") /\ UNCHANGED <<files, overlapped>> /\ Update(s, r)
  BY DEF EndResume, At
<1> HIDE DEF r
<1> QED
  BY <1>2, <1>4, <1>5, <1>6, BusyFrame

(* The bundles of a block that a run has taken whole are its artifact.     *)
LEMMA TakenWhole ==
  ASSUME IInv, NEW s \in Supervisor, run[s].pc \in Working
  PROVE  /\ Len(run[s].chain) + 1 \in Blocks
         /\ run[s].taken = artifact[Len(run[s].chain) + 1]
         /\ run[s].taken \in Bundles
<1> DEFINE k == Len(run[s].chain) + 1
           a == artifact[k]
           b == run[s].taken
<1>1. run[s] \in RunState /\ RunInv(run[s])
  BY Typed DEF IInv
<1>2. k \in Blocks
  BY <1>1, RunTyped, Counts DEF RunInv, Control, Working, Blocks
<1>3. Len(b) = FrameCount /\ b \in Bundles /\ DOMAIN b = 1 .. FrameCount
  BY <1>1, RunTyped DEF RunInv, Control, Working
<1>4. a \in UNION {[1 .. f -> Bundle] : f \in 0 .. FrameCount}
  BY <1>2, Typed DEF IInv
<1>5. Len(a) \in 0 .. FrameCount /\ DOMAIN a = 1 .. Len(a)
      /\ (Len(a) = FrameCount => a \in Bundles)
  BY <1>4, FramesAreSeq DEF Bundles
<1>6. \A f \in 1 .. FrameCount : f \in DOMAIN a /\ a[f] = b[f]
  BY <1>1, <1>3 DEF RunInv, Taken, Working
<1>7. Len(a) = FrameCount
  BY <1>5, <1>6, Counts
<1>8. a = b
  BY <1>3, <1>5, <1>6, <1>7 DEF Bundles
<1> QED
  BY <1>2, <1>3, <1>8

(* What a run of a whole block merges is what its blocks have staged.      *)
LEMMA NextStateIs ==
  ASSUME IInv, NEW s \in Supervisor, run[s].pc \in {"reduce", "state"}
  PROVE  LET k == Len(run[s].chain) + 1
             f == run[s].merged + 1
         IN  /\ k \in Blocks /\ f \in 1 .. FrameCount
             /\ NextState(s) \in State
             /\ NextState(s) = [j \in 1 .. k |-> artifact[j][f]]
             /\ \A j \in 1 .. k : artifact[j] \in Bundles
<1> DEFINE c == run[s].chain
           k == Len(c) + 1
           f == run[s].merged + 1
           m == Merge(c, f)
           x == run[s].taken[f]
<1>1. run[s] \in RunState /\ RunInv(run[s])
  BY Typed DEF IInv
<1>2. k \in Blocks /\ run[s].taken = artifact[k] /\ artifact[k] \in Bundles
  BY TakenWhole DEF Working
<1>3. f \in 1 .. FrameCount
  BY <1>1, Counts DEF RunState, RunInv, Control
<1>4. c \in Chain /\ Len(c) \in 0 .. BlockCount /\ DOMAIN c = 1 .. Len(c) /\ Staged(c)
  BY <1>1, RunTyped DEF RunInv
<1>5. \A j \in 1 .. Len(c) : artifact[j] \in Bundles
  BY <1>4, StagedWhole
<1>6. \A j \in 1 .. k : artifact[j] \in Bundles
  BY <1>2, <1>4, <1>5, Counts
<1>7. m = [j \in 1 .. Len(c) |-> artifact[j][f]]
  BY <1>4 DEF Merge, Staged
<1>8. \A j \in 1 .. k : artifact[j][f] \in Bundle
  BY <1>3, <1>6 DEF Bundles
<1>9. m \in [1 .. Len(c) -> Bundle] /\ Len(c) \in Nat /\ x \in Bundle
  BY <1>2, <1>3, <1>4, <1>7, <1>8, Counts DEF Blocks
<1>10. m \in Seq(Bundle) /\ Len(m) = Len(c)
  BY <1>9, SegmentIsSeq
<1>11. /\ Append(m, x) \in [1 .. k -> Bundle]
       /\ \A j \in 1 .. Len(c) : Append(m, x)[j] = m[j]
       /\ Append(m, x)[k] = x
  <2> HIDE DEF m, x
  <2> QED
    BY <1>9, <1>10, AppendIsSegment
<1>12. \A j \in 1 .. k : Append(m, x)[j] = artifact[j][f]
  BY <1>2, <1>4, <1>7, <1>11, Counts
<1>13. NextState(s) = Append(m, x)
  BY DEF NextState
<1>14. Append(m, x) \in State
  BY <1>2, <1>11 DEF State
<1>15. Append(m, x) = [j \in 1 .. k |-> artifact[j][f]]
  BY <1>11, <1>12
<1> QED
  BY <1>2, <1>3, <1>6, <1>13, <1>14, <1>15

(* A run whose next state is in place.                                     *)
LEMMA DoneRun ==
  ASSUME IInv, NEW s \in Supervisor, run[s].pc \in {"reduce", "state"}, StateDone(s)
  PROVE  \E r \in RunState :
            /\ Update(s, r)
            /\ r.pc \in {"reduce", "respond"} /\ r.worker = run[s].worker
            /\ r.chain = run[s].chain /\ r.taken = run[s].taken
            /\ r.merged = run[s].merged + 1 /\ r.left = run[s].left
            /\ Control(r) /\ (Owns(run[s]) => Owns(r))
<1> DEFINE r == [run[s] EXCEPT !.merged = @ + 1,
                   !.pc = IF run[s].merged + 1 = FrameCount THEN "respond" ELSE "reduce"]
<1>1. run[s] \in RunState /\ RunInv(run[s]) /\ run[s].pc # "idle"
  BY Typed DEF IInv
<1>2. run[s].merged + 1 \in 1 .. FrameCount
  BY <1>1, Counts DEF RunState, RunInv, Control
<1>3. /\ r.pc = (IF run[s].merged + 1 = FrameCount THEN "respond" ELSE "reduce")
      /\ r.worker = run[s].worker
      /\ r.chain = run[s].chain /\ r.taken = run[s].taken
      /\ r.merged = run[s].merged + 1 /\ r.left = run[s].left
      /\ r \in RunState
  <2> DEFINE pc == IF run[s].merged + 1 = FrameCount THEN "respond" ELSE "reduce"
             m == run[s].merged + 1
  <2>1. pc \in {"respond", "reduce"} /\ m \in 0 .. FrameCount
    BY <1>2, Counts
  <2>2. r = [run[s] EXCEPT !.merged = m, !.pc = pc]
    BY <1>1 DEF RunState
  <2> HIDE DEF pc, m, r
  <2>3. /\ r.pc = pc /\ r.worker = run[s].worker
        /\ r.chain = run[s].chain /\ r.taken = run[s].taken
        /\ r.merged = m /\ r.left = run[s].left
        /\ r \in RunState
    BY <1>1, <2>1, <2>2 DEF RunState
  <2> QED
    BY <2>3 DEF pc, m
<1>4. Control(r)
  BY <1>1, <1>2, <1>3, Counts DEF RunInv, Control, Working
<1>5. Owns(run[s]) => Owns(r)
  BY <1>1, <1>3 DEF Owns, Installed
<1>6. Update(s, r)
  BY DEF StateDone
<1> HIDE DEF r
<1> QED
  BY <1>3, <1>4, <1>5, <1>6

LEMMA CheckStateKeeps ==
  ASSUME IInv, NEW s \in Supervisor, CheckState(s)
  PROVE  IInv'
<1>1. run[s] \in RunState /\ RunInv(run[s]) /\ run[s].pc = "reduce"
  BY Typed DEF IInv, CheckState, At
<1>2. ~At(s, "idle") /\ UNCHANGED <<files, overlapped>>
  BY DEF CheckState, At
<1>3. CASE Update(s, [run[s] EXCEPT !.pc = "state"])
  <2> DEFINE r == [run[s] EXCEPT !.pc = "state"]
  <2>1. /\ r.pc = "state" /\ r.worker = run[s].worker /\ r.chain = run[s].chain
        /\ r.taken = run[s].taken /\ r.merged = run[s].merged /\ r.left = run[s].left
        /\ r \in RunState
    BY <1>1 DEF RunState
  <2>2. RunInv(r) /\ (Owns(run[s]) => Owns(r))
    BY <1>1, <2>1 DEF RunInv, Control, Taken, Merged, Owns, Installed, Working
  <2>3. Update(s, r)
    BY <1>3
  <2> HIDE DEF r
  <2> QED
    BY <1>2, <2>1, <2>2, <2>3, BusyFrame
<1>4. CASE Len(compact[Current(s)]) >= run[s].merged + 1 /\ StateDone(s)
  <2>1. PICK r \in RunState :
            /\ Update(s, r)
            /\ r.pc \in {"reduce", "respond"} /\ r.worker = run[s].worker
            /\ r.chain = run[s].chain /\ r.taken = run[s].taken
            /\ r.merged = run[s].merged + 1 /\ r.left = run[s].left
            /\ Control(r) /\ (Owns(run[s]) => Owns(r))
    BY <1>1, <1>4, DoneRun
  <2>2. Merged(r)
    BY <1>4, <2>1 DEF Merged, Current, Working
  <2>3. RunInv(r)
    BY <1>1, <2>1, <2>2 DEF RunInv, Taken, Working
  <2> QED
    BY <1>2, <2>1, <2>3, BusyFrame
<1> QED
  BY <1>3, <1>4 DEF CheckState

LEMMA RespondKeeps ==
  ASSUME IInv, NEW s \in Supervisor, NEW x \in Response, Respond(s, x)
  PROVE  IInv'
<1> DEFINE c == run[s].chain
           e == [bundles |-> run[s].taken, response |-> x]
           d == Append(c, e)
           r == [run[s] EXCEPT !.pc = "install", !.chain = d]
<1>1. run[s] \in RunState /\ RunInv(run[s]) /\ run[s].pc = "respond"
  BY Typed DEF IInv, Respond, At
<1>2. /\ Len(c) + 1 \in Blocks /\ run[s].taken = artifact[Len(c) + 1]
      /\ run[s].taken \in Bundles
  BY <1>1, TakenWhole DEF Working
<1>3. c \in Chain /\ Len(c) \in 0 .. BlockCount /\ Len(c) < BlockCount /\ DOMAIN c = 1 .. Len(c)
  BY <1>1, RunTyped DEF RunInv, Control, Working
<1>4. e \in Entry /\ e.bundles = run[s].taken
  BY <1>2 DEF Entry
<1>5. /\ d \in Chain /\ Len(d) = Len(c) + 1 /\ DOMAIN d = 1 .. Len(c) + 1
      /\ \A i \in 1 .. Len(c) : d[i] = c[i]
      /\ d[Len(c) + 1] = e
  <2> HIDE DEF e, c
  <2> QED
    BY <1>3, <1>4, AppendChain
<1>6. /\ r.pc = "install" /\ r.worker = run[s].worker /\ r.chain = d
      /\ r.taken = run[s].taken /\ r.merged = run[s].merged /\ r.left = run[s].left
      /\ r \in RunState
  BY <1>1, <1>5 DEF RunState
<1> HIDE DEF r
<1>7. Control(r)
  BY <1>1, <1>3, <1>5, <1>6, Counts DEF RunInv, Control, Working
<1>8. Staged(d)
  <2>1. \A j \in 1 .. Len(c) : d[j].bundles = artifact[j]
    BY <1>1, <1>3, <1>5 DEF RunInv, Staged
  <2>2. d[Len(c) + 1].bundles = artifact[Len(c) + 1]
    BY <1>2, <1>4, <1>5
  <2> QED
    BY <1>3, <1>5, <2>1, <2>2 DEF Staged
<1>9. Merged(r)
  <2>1. Len(compact[Len(c) + 1]) >= FrameCount
    BY <1>1 DEF RunInv, Merged, Control, Working
  <2>2. compact[Len(c) + 1] \in UNION {[1 .. f -> State] : f \in 0 .. FrameCount}
    BY <1>2, Typed DEF IInv
  <2>3. Len(compact[Len(c) + 1]) \in 0 .. FrameCount
    BY <2>2, FramesAreSeq
  <2> QED
    BY <1>5, <1>6, <2>1, <2>3, Counts DEF Merged, Working
<1>10. RunInv(r)
  BY <1>6, <1>7, <1>8, <1>9 DEF RunInv, Taken, Working
<1>11. Owns(run[s]) => Owns(r)
  <2> SUFFICES ASSUME Owns(run[s])
               PROVE  Owns(r)
    OBVIOUS
  <2>1. Installed(r) = Len(c) /\ Installed(run[s]) = Len(c)
    BY <1>1, <1>3, <1>5, <1>6 DEF Installed
  <2>2. \A j \in 1 .. Len(c) : Prefix(d, j) = Prefix(c, j)
    BY <1>3, <1>5 DEF Prefix
  <2>3. \A j \in 1 .. Len(c) : Continues(j, r.worker, d)
    BY <1>1, <1>6, <2>1, <2>2 DEF Owns, Continues
  <2> QED
    BY <1>1, <1>6, <2>1, <2>3 DEF Owns
<1>12. ~At(s, "idle") /\ UNCHANGED <<files, overlapped>> /\ Update(s, r)
  BY DEF Respond, At, r
<1> QED
  BY <1>6, <1>10, <1>11, <1>12, BusyFrame

LEMMA FinishKeeps ==
  ASSUME IInv, NEW s \in Supervisor, Finish(s)
  PROVE  IInv'
<1>1. run[s] \in RunState /\ RunInv(run[s]) /\ run[s].pc = "block"
  BY Typed DEF IInv, Finish, At
<1>2. ~At(s, "idle") /\ UNCHANGED <<files, overlapped>>
  BY DEF Finish, At
<1>3. CASE Current(s) > BlockCount /\ Update(s, [run[s] EXCEPT !.pc = "receipt"])
  <2> DEFINE r == [run[s] EXCEPT !.pc = "receipt"]
  <2>1. /\ r.pc = "receipt" /\ r.worker = run[s].worker /\ r.chain = run[s].chain
        /\ r \in RunState
    BY <1>1 DEF RunState
  <2>2. Len(r.chain) = BlockCount
    BY <1>1, <1>3, <2>1, RunTyped, Counts DEF Current
  <2>3. RunInv(r)
    BY <1>1, <2>1, <2>2 DEF RunInv, Control, Taken, Merged, Working
  <2>4. Owns(run[s]) => Owns(r)
    BY <1>1, <2>1 DEF Owns, Installed
  <2>5. Update(s, r)
    BY <1>3
  <2> HIDE DEF r
  <2> QED
    BY <1>2, <2>1, <2>3, <2>4, <2>5, BusyFrame
<1>4. CASE Update(s, Idle)
  BY <1>2, <1>4, EndKeeps
<1> QED
  BY <1>3, <1>4 DEF Finish

-----------------------------------------------------------------------------
(* Steps that change a file                                                *)

(* Staging a bundle changes no block that is already whole.                *)
LEMMA AdmitGrows ==
  ASSUME TypeOK, NEW k \in Blocks, NEW f \in 1 .. FrameCount, NEW b \in Bundle,
         Len(artifact[k]) >= f - 1,
         \/ Len(artifact[k]) < f /\ artifact' = [artifact EXCEPT ![k] = Append(@, b)]
         \/ Len(artifact[k]) >= f /\ artifact[k][f] = b /\ UNCHANGED artifact
  PROVE  /\ artifact' \in [Blocks -> UNION {[1 .. n -> Bundle] : n \in 0 .. FrameCount}]
         /\ \A j \in Blocks : \A i \in DOMAIN artifact[j] :
               i \in DOMAIN artifact'[j] /\ artifact'[j][i] = artifact[j][i]
         /\ \A j \in Blocks : artifact[j] \in Bundles => artifact'[j] = artifact[j]
         /\ f \in DOMAIN artifact'[k] /\ artifact'[k][f] = b
<1>1. artifact \in [Blocks -> UNION {[1 .. n -> Bundle] : n \in 0 .. FrameCount}]
  BY Typed
<1>2. \A j \in Blocks : Len(artifact[j]) \in 0 .. FrameCount /\ DOMAIN artifact[j] = 1 .. Len(artifact[j])
  BY <1>1, FramesAreSeq
<1>3. CASE Len(artifact[k]) < f /\ artifact' = [artifact EXCEPT ![k] = Append(@, b)]
  <2>1. PICK a \in UNION {[1 .. n -> Bundle] : n \in 0 .. FrameCount} : a = artifact[k]
    BY <1>1
  <2>2. Len(a) = f - 1 /\ Len(a) < FrameCount
    BY <1>2, <1>3, <2>1, Counts
  <2>3. artifact'[k] = Append(a, b) /\ \A j \in Blocks \ {k} : artifact'[j] = artifact[j]
    BY <1>1, <1>3, <2>1
  <2>4. /\ Append(a, b) \in UNION {[1 .. n -> Bundle] : n \in 0 .. FrameCount}
        /\ DOMAIN Append(a, b) = 1 .. f
        /\ \A i \in 1 .. Len(a) : Append(a, b)[i] = a[i]
        /\ Append(a, b)[f] = b
    BY <2>2, AppendFrame, Counts
  <2>5. artifact' \in [Blocks -> UNION {[1 .. n -> Bundle] : n \in 0 .. FrameCount}]
    <3>1. artifact' = [artifact EXCEPT ![k] = Append(a, b)]
      BY <1>3, <2>1
    <3> QED
      BY <1>1, <2>4, <3>1
  <2>6. artifact[k] \notin Bundles
    BY <2>1, <2>2, Counts, SegmentIsSeq DEF Bundles
  <2>7. ASSUME NEW j \in Blocks, NEW i \in DOMAIN artifact[j]
        PROVE  i \in DOMAIN artifact'[j] /\ artifact'[j][i] = artifact[j][i]
    <3>1. CASE j = k
      <4>1. i \in 1 .. Len(a)
        BY <1>2, <2>1, <3>1
      <4>2. i \in 1 .. f
        BY <2>2, <4>1
      <4> QED
        BY <2>1, <2>3, <2>4, <3>1, <4>1, <4>2
    <3>2. CASE j # k
      BY <2>3, <3>2
    <3> QED
      BY <3>1, <3>2
  <2>8. f \in DOMAIN artifact'[k] /\ artifact'[k][f] = b
    BY <2>3, <2>4
  <2> QED
    BY <2>3, <2>5, <2>6, <2>7, <2>8
<1>4. CASE Len(artifact[k]) >= f /\ artifact[k][f] = b /\ UNCHANGED artifact
  BY <1>1, <1>2, <1>4
<1> QED
  BY <1>3, <1>4

(* The run after it has taken one more bundle.                             *)
LEMMA AdmitRun ==
  ASSUME IInv, NEW s \in Supervisor, NEW b \in Bundle, AdmitBundle(s, b)
  PROVE  \E r \in RunState :
            /\ Update(s, r)
            /\ r.pc \in {"block", "reduce"} /\ r.worker = run[s].worker
            /\ r.chain = run[s].chain /\ r.merged = 0 /\ r.left = run[s].left
            /\ Len(r.taken) = Len(run[s].taken) + 1
            /\ DOMAIN r.taken = 1 .. Len(r.taken)
            /\ \A i \in 1 .. Len(run[s].taken) : r.taken[i] = run[s].taken[i]
            /\ r.taken[Len(r.taken)] = b
            /\ Control(r) /\ (Owns(run[s]) => Owns(r))
<1> DEFINE c == run[s].chain
           t == run[s].taken
           f == Len(t) + 1
           u == Append(t, b)
           pc == IF f = FrameCount THEN "reduce" ELSE "block"
           r == [run[s] EXCEPT !.taken = u, !.pc = pc]
<1>1. /\ run[s] \in RunState /\ RunInv(run[s]) /\ run[s].pc = "block"
      /\ Len(c) + 1 \in Blocks /\ run[s].left > 0 /\ f <= FrameCount
  BY Typed DEF IInv, AdmitBundle, At, Current
<1>2. /\ Len(t) \in 0 .. FrameCount /\ t \in UNION {[1 .. n -> Bundle] : n \in 0 .. FrameCount}
      /\ Len(c) \in 0 .. BlockCount
  BY <1>1, RunTyped DEF RunState
<1>3. Len(t) < FrameCount /\ Len(c) < BlockCount
  BY <1>1, <1>2, Counts DEF Blocks
<1>4. /\ u \in UNION {[1 .. n -> Bundle] : n \in 0 .. FrameCount}
      /\ Len(u) = f /\ DOMAIN u = 1 .. f
      /\ \A i \in 1 .. Len(t) : u[i] = t[i]
      /\ u[f] = b
  <2>1. Len(t) < FrameCount /\ t \in UNION {[1 .. n -> Bundle] : n \in 0 .. FrameCount}
    BY <1>2, <1>3
  <2> HIDE DEF t
  <2> QED
    BY <2>1, AppendFrame
<1>5. Update(s, r)
  <2>1. [run[s] EXCEPT !.taken = Append(@, b), !.pc = pc] = r
    BY <1>1 DEF RunState
  <2> QED
    BY <2>1 DEF AdmitBundle
<1> HIDE DEF r, u
<1>6. /\ r.pc = pc /\ r.worker = run[s].worker /\ r.chain = c /\ r.taken = u
      /\ r.merged = run[s].merged /\ r.left = run[s].left
      /\ r \in RunState
  <2>1. pc \in {"reduce", "block"}
    OBVIOUS
  <2> HIDE DEF pc
  <2> QED
    BY <1>1, <1>4, <2>1 DEF RunState, r
<1>7. Control(r) /\ r.merged = 0
  <2>1. r.worker \in Worker /\ r.merged = 0 /\ r.left > 0 /\ Len(r.chain) < BlockCount
    BY <1>1, <1>3, <1>6 DEF RunInv, Control
  <2>2. f # FrameCount => f < FrameCount
    BY <1>1, <1>2, Counts
  <2> QED
    BY <1>4, <1>6, <2>1, <2>2, Counts DEF Control, Working
<1>8. Owns(run[s]) => Owns(r)
  BY <1>1, <1>6 DEF Owns, Installed
<1> QED
  BY <1>4, <1>5, <1>6, <1>7, <1>8

LEMMA AdmitKeeps ==
  ASSUME IInv, NEW s \in Supervisor, NEW b \in Bundle, AdmitBundle(s, b)
  PROVE  IInv'
<1>1. PICK r \in RunState :
            /\ Update(s, r)
            /\ r.pc \in {"block", "reduce"} /\ r.worker = run[s].worker
            /\ r.chain = run[s].chain /\ r.merged = 0 /\ r.left = run[s].left
            /\ Len(r.taken) = Len(run[s].taken) + 1
            /\ DOMAIN r.taken = 1 .. Len(r.taken)
            /\ \A i \in 1 .. Len(run[s].taken) : r.taken[i] = run[s].taken[i]
            /\ r.taken[Len(r.taken)] = b
            /\ Control(r) /\ (Owns(run[s]) => Owns(r))
  BY AdmitRun
<1>2. PICK k \in Blocks : k = Len(r.chain) + 1
  BY <1>1 DEF AdmitBundle, Current
<1>3. PICK f \in 1 .. FrameCount : f = Len(r.taken)
  <2>1. Len(r.taken) \in 0 .. FrameCount /\ Len(run[s].taken) \in 0 .. FrameCount
    BY RunTyped, Typed DEF IInv
  <2> QED
    BY <1>1, <2>1, Counts
<1>4. /\ run[s] \in RunState /\ RunInv(run[s]) /\ run[s].pc = "block"
      /\ run \in [Supervisor -> RunState]
      /\ Len(run[s].taken) = f - 1 /\ DOMAIN run[s].taken = 1 .. f - 1
  <2>1. run \in [Supervisor -> RunState] /\ RunInv(run[s]) /\ run[s].pc = "block"
    BY Typed DEF IInv, AdmitBundle, At
  <2>2. Len(run[s].taken) \in 0 .. FrameCount /\ DOMAIN run[s].taken = 1 .. Len(run[s].taken)
    BY <2>1, RunTyped
  <2> QED
    BY <1>1, <1>3, <2>1, <2>2, Counts
<1>5. \A i \in 1 .. f - 1 : i \in DOMAIN artifact[k] /\ artifact[k][i] = r.taken[i]
  BY <1>1, <1>2, <1>4 DEF RunInv, Taken
<1>6. Len(artifact[k]) >= f - 1
  <2>1. artifact[k] \in UNION {[1 .. n -> Bundle] : n \in 0 .. FrameCount}
    BY <1>2, Typed DEF IInv
  <2>2. Len(artifact[k]) \in 0 .. FrameCount /\ DOMAIN artifact[k] = 1 .. Len(artifact[k])
    BY <2>1, FramesAreSeq
  <2>3. f \in Nat /\ f >= 1
    BY Counts
  <2>4. f > 1 => f - 1 \in 1 .. f - 1
    BY <2>3
  <2>5. f > 1 => f - 1 \in DOMAIN artifact[k]
    BY <1>5, <2>4
  <2> QED
    BY <2>2, <2>3, <2>5, Counts
<1>7. /\ \/ Len(artifact[k]) < f /\ artifact' = [artifact EXCEPT ![k] = Append(@, b)]
         \/ Len(artifact[k]) >= f /\ artifact[k][f] = b /\ UNCHANGED artifact
      /\ UNCHANGED <<compact, checkpoint, receipt, overlapped>>
  BY <1>1, <1>2, <1>3 DEF AdmitBundle, Current
<1>8. /\ artifact' \in [Blocks -> UNION {[1 .. n -> Bundle] : n \in 0 .. FrameCount}]
      /\ \A j \in Blocks : \A i \in DOMAIN artifact[j] :
            i \in DOMAIN artifact'[j] /\ artifact'[j][i] = artifact[j][i]
      /\ \A j \in Blocks : artifact[j] \in Bundles => artifact'[j] = artifact[j]
      /\ f \in DOMAIN artifact'[k] /\ artifact'[k][f] = b
  <2>1. TypeOK
    BY DEF IInv
  <2> QED
    BY <1>6, <1>7, <2>1, AdmitGrows
<1>9. ASSUME NEW d \in Chain, Staged(d)
      PROVE  Staged(d)'
  <2> SUFFICES ASSUME NEW j \in DOMAIN d
               PROVE  d[j].bundles = artifact'[j]
    BY DEF Staged
  <2>1. j \in 1 .. Len(d)
    BY ChainIsSeq
  <2> QED
    BY <1>8, <1>9, <2>1, StagedWhole DEF Staged
<1>10. RunInv(r)'
  <2>1. Taken(r)'
    <3> SUFFICES ASSUME NEW i \in DOMAIN r.taken
                 PROVE  /\ i \in DOMAIN artifact'[Len(r.chain) + 1]
                        /\ artifact'[Len(r.chain) + 1][i] = r.taken[i]
      BY DEF Taken
    <3>1. i \in 1 .. f - 1 \/ i = f
      BY <1>1, <1>3, Counts
    <3> QED
      BY <1>1, <1>2, <1>3, <1>5, <1>8, <3>1
  <2>2. Merged(r)'
    <3>1. compact[k] \in UNION {[1 .. n -> State] : n \in 0 .. FrameCount}
      BY <1>2, Typed DEF IInv
    <3>2. Len(compact[k]) >= 0
      BY <3>1, FramesAreSeq, Counts
    <3> QED
      BY <1>1, <1>2, <1>7, <3>2 DEF Merged
  <2>3. Staged(r.chain)'
    <3>1. r.chain \in Chain /\ Staged(r.chain)
      BY <1>1, <1>4, RunTyped DEF RunInv
    <3> QED
      BY <1>9, <3>1
  <2> QED
    BY <1>1, <2>1, <2>2, <2>3 DEF RunInv, Control
<1>11. /\ run' \in [Supervisor -> RunState] /\ run'[s] = r
       /\ \A q \in Supervisor \ {s} : run'[q] = run[q]
  BY <1>1, <1>4 DEF Update
<1>12. TypeOK'
  <2>1. UNCHANGED <<compact, checkpoint, receipt, overlapped>> /\ TypeOK
    BY <1>7 DEF IInv
  <2> QED
    BY <1>8, <1>11, <2>1 DEF TypeOK, RunState
<1>13. ASSUME NEW p \in RunState, RunInv(p)
       PROVE  RunInv(p)'
  <2>1. /\ p.chain \in Chain /\ Len(p.chain) \in 0 .. BlockCount
        /\ DOMAIN p.taken = 1 .. Len(p.taken)
        /\ Len(p.taken) \in 0 .. FrameCount
    BY RunTyped
  <2>2. Staged(p.chain)'
    BY <1>9, <1>13, <2>1 DEF RunInv
  <2>3. Taken(p)'
    <3> SUFFICES ASSUME p.pc \in {"block"} \cup Working, NEW i \in DOMAIN p.taken
                 PROVE  /\ i \in DOMAIN artifact'[Len(p.chain) + 1]
                        /\ artifact'[Len(p.chain) + 1][i] = p.taken[i]
      BY DEF Taken
    <3>1. /\ i \in DOMAIN artifact[Len(p.chain) + 1]
          /\ artifact[Len(p.chain) + 1][i] = p.taken[i]
      BY <1>13 DEF RunInv, Taken
    <3>2. p.taken # <<>>
      BY <2>1
    <3>3. Len(p.chain) < BlockCount
      BY <1>13, <3>2 DEF RunInv, Control, Working
    <3>4. Len(p.chain) + 1 \in Blocks
      BY <2>1, <3>3, Counts DEF Blocks
    <3> QED
      BY <1>8, <3>1, <3>4
  <2>4. Merged(p)' /\ Control(p)'
    BY <1>7, <1>13 DEF RunInv, Merged, Control
  <2> QED
    BY <2>2, <2>3, <2>4 DEF RunInv
<1>14. \A q \in Supervisor : RunInv(run[q])'
  <2> SUFFICES ASSUME NEW q \in Supervisor
               PROVE  RunInv(run[q])'
    OBVIOUS
  <2>1. PICK p \in RunState : run'[q] = p /\ RunInv(p)'
    <3>1. CASE q = s
      BY <1>10, <1>11, <3>1
    <3>2. CASE q # s
      BY <1>4, <1>11, <1>13, <3>2 DEF IInv
    <3> QED
      BY <3>1, <3>2
  <2> QED
    BY <2>1 DEF RunInv, Control, Staged, Taken, Merged
<1>15. FilesInv'
  <2>1. ASSUME NEW j \in Blocks
        PROVE  CheckpointInv(j)'
    <3> SUFFICES ASSUME checkpoint[j] # None
                 PROVE  Len(checkpoint[j].chain) = j /\ Staged(checkpoint[j].chain)'
      BY <1>7 DEF CheckpointInv, Staged
    <3>1. PICK d \in Chain : d = checkpoint[j].chain
      BY Typed DEF IInv, Record
    <3>2. Len(d) = j /\ Staged(d)
      BY <3>1 DEF IInv, FilesInv, CheckpointInv
    <3> QED
      BY <1>7, <1>9, <3>1, <3>2 DEF Staged
  <2>2. ASSUME NEW j \in Blocks
        PROVE  StateInv(j)'
    <3> SUFFICES ASSUME NEW i \in DOMAIN compact[j]
                 PROVE  /\ \A l \in 1 .. j : i \in DOMAIN artifact'[l]
                        /\ compact[j][i] = [l \in 1 .. j |-> artifact'[l][i]]
      BY <1>7 DEF StateInv
    <3>1. /\ \A l \in 1 .. j : i \in DOMAIN artifact[l]
          /\ compact[j][i] = [l \in 1 .. j |-> artifact[l][i]]
      BY DEF IInv, FilesInv, StateInv
    <3>2. \A l \in 1 .. j : l \in Blocks
      BY Counts DEF Blocks
    <3>3. \A l \in 1 .. j : i \in DOMAIN artifact'[l] /\ artifact'[l][i] = artifact[l][i]
      BY <1>8, <3>1, <3>2
    <3> QED
      BY <3>1, <3>3
  <2>3. (receipt # None => Staged(receipt.chain))'
    <3> SUFFICES ASSUME receipt # None
                 PROVE  Staged(receipt.chain)'
      BY <1>7
    <3>1. PICK d \in Chain : d = receipt.chain
      BY Typed DEF IInv, Record
    <3>2. Staged(d)
      BY <3>1 DEF IInv, FilesInv
    <3> QED
      BY <1>7, <1>9, <3>1, <3>2 DEF Staged
  <2> QED
    BY <2>1, <2>2, <2>3 DEF FilesInv
<1>16. ASSUME ~overlapped'
       PROVE  Solo'
  <2>1. /\ ~overlapped /\ Solo /\ receipt = None
        /\ Owns(run[s]) /\ \A q \in Supervisor : q = s \/ At(q, "idle")
    BY <1>4, <1>7, <1>16, Busy DEF IInv, At
  <2>2. Alone'
    BY <1>11, <2>1 DEF Alone, At
  <2>3. \A j \in Blocks : ChainInv(j)'
    BY <1>7, <2>1 DEF Solo, ChainInv, Continues
  <2>4. \A q \in Supervisor : Owns(run[q])'
    BY <1>1, <1>7, <1>11, <2>1 DEF Solo, Owns, Continues
  <2> QED
    BY <1>7, <2>1, <2>2, <2>3, <2>4 DEF Solo
<1> QED
  BY <1>12, <1>14, <1>15, <1>16 DEF IInv

AddsState(k, n) == compact' = [compact EXCEPT ![k] = Append(@, n)]

(* Writing a new state file changes no other.                              *)
LEMMA StateGrows ==
  ASSUME TypeOK, NEW k \in Blocks, NEW f \in 1 .. FrameCount, NEW n \in State,
         Len(compact[k]) = f - 1, AddsState(k, n)
  PROVE  /\ compact' \in [Blocks -> UNION {[1 .. i -> State] : i \in 0 .. FrameCount}]
         /\ \A j \in Blocks : Len(compact'[j]) >= Len(compact[j])
         /\ Len(compact'[k]) >= f
         /\ \A j \in Blocks : \A i \in DOMAIN compact'[j] :
               \/ j = k /\ i = f /\ compact'[j][i] = n
               \/ i \in DOMAIN compact[j] /\ compact'[j][i] = compact[j][i]
<1>1. compact \in [Blocks -> UNION {[1 .. i -> State] : i \in 0 .. FrameCount}]
  BY Typed
<1>2. PICK a \in UNION {[1 .. i -> State] : i \in 0 .. FrameCount} : a = compact[k]
  BY <1>1
<1>3. Len(a) = f - 1 /\ Len(a) < FrameCount /\ DOMAIN a = 1 .. f - 1 /\ f \in Nat
  BY <1>2, FramesAreSeq, Counts
<1>4. compact'[k] = Append(a, n) /\ \A j \in Blocks \ {k} : compact'[j] = compact[j]
  BY <1>1, <1>2 DEF AddsState
<1>5. /\ Append(a, n) \in UNION {[1 .. i -> State] : i \in 0 .. FrameCount}
      /\ Len(Append(a, n)) = f
      /\ DOMAIN Append(a, n) = 1 .. f
      /\ \A i \in 1 .. f - 1 : Append(a, n)[i] = a[i]
      /\ Append(a, n)[f] = n
  BY <1>3, AppendFrame, Counts
<1>6. compact' \in [Blocks -> UNION {[1 .. i -> State] : i \in 0 .. FrameCount}]
  <2>1. compact' = [compact EXCEPT ![k] = Append(a, n)]
    BY <1>2 DEF AddsState
  <2> QED
    BY <1>1, <1>5, <2>1
<1>7. ASSUME NEW j \in Blocks PROVE Len(compact'[j]) >= Len(compact[j])
  <2>1. PICK e \in UNION {[1 .. i -> State] : i \in 0 .. FrameCount} : e = compact[j]
    BY <1>1
  <2>2. Len(e) \in Nat
    BY FramesAreSeq, Counts
  <2> QED
    BY <1>2, <1>3, <1>4, <1>5, <2>1, <2>2
<1>8. ASSUME NEW j \in Blocks, NEW i \in DOMAIN compact'[j]
      PROVE  \/ j = k /\ i = f /\ compact'[j][i] = n
             \/ i \in DOMAIN compact[j] /\ compact'[j][i] = compact[j][i]
  <2>1. CASE j # k
    BY <1>4, <2>1
  <2>2. CASE j = k
    <3>1. i = f \/ i \in 1 .. f - 1
      BY <1>3, <1>4, <1>5, <2>2
    <3> QED
      BY <1>2, <1>3, <1>4, <1>5, <2>2, <3>1
  <2> QED
    BY <2>1, <2>2
<1> QED
  BY <1>3, <1>4, <1>5, <1>6, <1>7, <1>8

LEMMA ReplaceStateKeeps ==
  ASSUME IInv, NEW s \in Supervisor, ReplaceState(s)
  PROVE  IInv'
<1>1. /\ run[s] \in RunState /\ RunInv(run[s]) /\ run[s].pc = "state"
      /\ run \in [Supervisor -> RunState]
  BY Typed DEF IInv, ReplaceState, At
<1>2. PICK r \in RunState :
            /\ Update(s, r)
            /\ r.pc \in {"reduce", "respond"} /\ r.worker = run[s].worker
            /\ r.chain = run[s].chain /\ r.taken = run[s].taken
            /\ r.merged = run[s].merged + 1 /\ r.left = run[s].left
            /\ Control(r) /\ (Owns(run[s]) => Owns(r))
  BY <1>1, DoneRun DEF ReplaceState
<1>3. PICK k \in Blocks, f \in 1 .. FrameCount, n \in State :
            /\ k = Len(r.chain) + 1 /\ f = r.merged /\ n = NextState(s)
            /\ n = [j \in 1 .. k |-> artifact[j][f]]
            /\ \A j \in 1 .. k : artifact[j] \in Bundles
  BY <1>1, <1>2, NextStateIs
<1>4. Len(compact[k]) >= f - 1
  BY <1>1, <1>2, <1>3 DEF RunInv, Merged, RunState, Working
<1>5. UNCHANGED <<artifact, checkpoint, receipt, overlapped>>
  BY DEF ReplaceState
<1>6. CASE Len(compact[k]) >= f
  <2>1. compact[k] \in UNION {[1 .. i -> State] : i \in 0 .. FrameCount}
    BY Typed DEF IInv
  <2>2. f \in DOMAIN compact[k] /\ compact \in [Blocks -> UNION {[1 .. i -> State] : i \in 0 .. FrameCount}]
    BY <1>6, <2>1, Typed, FramesAreSeq, Counts DEF IInv
  <2>3. compact[k][f] = n
    BY <1>3, <2>2 DEF IInv, FilesInv, StateInv
  <2>4. ~(Len(compact[k]) < f)
    BY <1>6, <2>1, FramesAreSeq, Counts
  <2>5. compact' = [compact EXCEPT ![k] = [@ EXCEPT ![f] = n]]
    BY <1>2, <1>3, <2>4 DEF ReplaceState, Current
  <2>6. compact' = compact
    BY <2>1, <2>2, <2>3, <2>5
  <2>7. Merged(r)
    BY <1>2, <1>3, <1>6 DEF Merged
  <2>8. RunInv(r)
    BY <1>1, <1>2, <2>7 DEF RunInv, Taken, Working
  <2> QED
    BY <1>1, <1>2, <1>5, <2>6, <2>8, BusyFrame DEF At, files
<1>7. CASE Len(compact[k]) < f
  <2>1. /\ compact' \in [Blocks -> UNION {[1 .. i -> State] : i \in 0 .. FrameCount}]
        /\ \A j \in Blocks : Len(compact'[j]) >= Len(compact[j])
        /\ Len(compact'[k]) >= f
        /\ \A j \in Blocks : \A i \in DOMAIN compact'[j] :
              \/ j = k /\ i = f /\ compact'[j][i] = n
              \/ i \in DOMAIN compact[j] /\ compact'[j][i] = compact[j][i]
    <3>1. compact[k] \in UNION {[1 .. i -> State] : i \in 0 .. FrameCount}
      BY Typed DEF IInv
    <3>2. Len(compact[k]) = f - 1
      BY <1>4, <1>7, <3>1, FramesAreSeq, Counts
    <3>3. AddsState(k, n)
      BY <1>2, <1>3, <1>7 DEF ReplaceState, Current, AddsState
    <3>4. TypeOK
      BY DEF IInv
    <3> QED
      BY <3>2, <3>3, <3>4, StateGrows
  <2>2. \A j \in Blocks : /\ Len(compact[j]) \in 0 .. FrameCount
                          /\ Len(compact'[j]) \in 0 .. FrameCount
    <3> SUFFICES ASSUME NEW j \in Blocks
                 PROVE  /\ Len(compact[j]) \in 0 .. FrameCount
                        /\ Len(compact'[j]) \in 0 .. FrameCount
      OBVIOUS
    <3>1. /\ compact[j] \in UNION {[1 .. i -> State] : i \in 0 .. FrameCount}
          /\ compact'[j] \in UNION {[1 .. i -> State] : i \in 0 .. FrameCount}
      BY <2>1, Typed DEF IInv
    <3> QED
      BY <3>1, FramesAreSeq
  <2>3. \A j \in Blocks : Len(compact[j]) = FrameCount => Len(compact'[j]) = FrameCount
    BY <2>1, <2>2, Counts
  <2>4. ASSUME NEW p \in RunState, RunInv(p)
        PROVE  RunInv(p)'
    <3>1. Len(p.chain) \in 0 .. BlockCount /\ p.merged \in 0 .. FrameCount
      BY RunTyped DEF RunState
    <3>2. Merged(p)'
      <4>1. p.pc \in Working => Len(p.chain) + 1 \in Blocks
        BY <2>4, <3>1, Counts DEF RunInv, Control, Working, Blocks
      <4>2. p.pc = "install" => Len(p.chain) \in Blocks
        BY <2>4, <3>1, Counts DEF RunInv, Control, Blocks
      <4>3. p.pc \in Working => Len(compact'[Len(p.chain) + 1]) >= p.merged
        BY <2>1, <2>2, <2>4, <3>1, <4>1, Counts DEF RunInv, Merged
      <4>4. p.pc = "install" => Len(compact'[Len(p.chain)]) = FrameCount
        BY <2>3, <2>4, <4>2 DEF RunInv, Merged
      <4> QED
        BY <4>3, <4>4 DEF Merged
    <3> QED
      BY <1>5, <2>4, <3>2 DEF RunInv, Control, Staged, Taken
  <2>5. RunInv(r)'
    <3>1. Merged(r)'
      BY <1>2, <1>3, <2>1 DEF Merged
    <3> QED
      BY <1>1, <1>2, <1>5, <3>1 DEF RunInv, Control, Staged, Taken, Working
  <2>6. /\ run' \in [Supervisor -> RunState] /\ run'[s] = r
         /\ \A q \in Supervisor \ {s} : run'[q] = run[q]
    BY <1>1, <1>2 DEF Update
  <2>7. TypeOK'
    <3>1. UNCHANGED <<artifact, checkpoint, receipt, overlapped>> /\ TypeOK
      BY <1>5 DEF IInv
    <3> QED
      BY <2>1, <2>6, <3>1 DEF TypeOK, RunState, State
  <2>8. \A q \in Supervisor : RunInv(run[q])'
    <3> SUFFICES ASSUME NEW q \in Supervisor
                 PROVE  RunInv(run[q])'
      OBVIOUS
    <3>1. PICK p \in RunState : run'[q] = p /\ RunInv(p)'
      <4>1. CASE q = s
        BY <2>5, <2>6, <4>1
      <4>2. CASE q # s
        BY <1>1, <2>4, <2>6, <4>2 DEF IInv
      <4> QED
        BY <4>1, <4>2
    <3> QED
      BY <3>1 DEF RunInv, Control, Staged, Taken, Merged
  <2>9. FilesInv'
    <3>1. ASSUME NEW j \in Blocks
          PROVE  StateInv(j)'
      <4> SUFFICES ASSUME NEW i \in DOMAIN compact'[j]
                   PROVE  /\ \A l \in 1 .. j : i \in DOMAIN artifact[l]
                          /\ compact'[j][i] = [l \in 1 .. j |-> artifact[l][i]]
        BY <1>5 DEF StateInv
      <4>1. CASE j = k /\ i = f /\ compact'[j][i] = n
        <5>1. \A l \in 1 .. k : DOMAIN artifact[l] = 1 .. FrameCount
          BY <1>3 DEF Bundles
        <5> QED
          BY <1>3, <4>1, <5>1
      <4>2. CASE i \in DOMAIN compact[j] /\ compact'[j][i] = compact[j][i]
        BY <4>2 DEF IInv, FilesInv, StateInv
      <4> QED
        BY <2>1, <4>1, <4>2
    <3> QED
      BY <1>5, <3>1 DEF IInv, FilesInv, CheckpointInv, Staged
  <2>10. ASSUME ~overlapped'
         PROVE  Solo'
    <3>1. /\ ~overlapped /\ Solo /\ receipt = None
          /\ Owns(run[s]) /\ \A q \in Supervisor : q = s \/ At(q, "idle")
      BY <1>1, <1>5, <2>10, Busy DEF IInv, At
    <3>2. Alone'
      BY <2>6, <3>1 DEF Alone, At
    <3>3. \A j \in Blocks : ChainInv(j)'
      BY <1>5, <2>3, <3>1 DEF Solo, ChainInv, Continues
    <3>4. \A q \in Supervisor : Owns(run[q])'
      BY <1>2, <1>5, <2>6, <3>1 DEF Solo, Owns, Continues
    <3> QED
      BY <1>5, <3>1, <3>2, <3>3, <3>4 DEF Solo
  <2> QED
    BY <2>7, <2>8, <2>9, <2>10 DEF IInv
<1> QED
  BY <1>6, <1>7

LEMMA InstallCheckpointKeeps ==
  ASSUME IInv, NEW s \in Supervisor, InstallCheckpoint(s)
  PROVE  IInv'
<1> DEFINE c == run[s].chain
           e == [worker |-> run[s].worker, chain |-> c]
           r == [run[s] EXCEPT !.pc = "block", !.taken = <<>>, !.merged = 0, !.left = @ - 1]
<1>1. /\ run[s] \in RunState /\ RunInv(run[s]) /\ run[s].pc = "install"
      /\ run \in [Supervisor -> RunState]
  BY Typed DEF IInv, InstallCheckpoint, At
<1>2. /\ c \in Chain /\ Len(c) \in Blocks /\ run[s].left > 0 /\ Staged(c)
      /\ run[s].worker \in Worker /\ Len(compact[Len(c)]) = FrameCount
  BY <1>1, RunTyped, Counts DEF RunInv, Control, Merged, Blocks
<1>3. e \in Record /\ e # None /\ e.worker = run[s].worker /\ e.chain = c
  BY <1>2, NoneAssumption DEF Record
<1>4. /\ checkpoint' = [checkpoint EXCEPT ![Len(c)] = e]
      /\ run' = [run EXCEPT ![s] = r]
      /\ UNCHANGED <<artifact, compact, receipt, overlapped>>
  BY DEF InstallCheckpoint, Update
<1>5. /\ r.pc = "block" /\ r.worker = run[s].worker /\ r.chain = c
      /\ r.taken = <<>> /\ r.merged = 0
      /\ r \in RunState
  <2> DEFINE l == run[s].left - 1
  <2>1. l \in 0 .. BlockCount /\ 0 \in 0 .. FrameCount
    BY <1>1, <1>2, Counts DEF RunState
  <2>2. <<>> \in UNION {[1 .. f -> Bundle] : f \in 0 .. FrameCount}
    BY IdleTyped DEF Idle, RunState
  <2>3. r = [run[s] EXCEPT !.pc = "block", !.taken = <<>>, !.merged = 0, !.left = l]
    BY <1>1 DEF RunState
  <2> HIDE DEF l, r
  <2> QED
    BY <1>1, <2>1, <2>2, <2>3 DEF RunState
<1> HIDE DEF e, r
<1>6. PICK q \in RunState, w \in Record, k \in Blocks :
          /\ q = r /\ w = e /\ k = Len(c)
          /\ q.pc = "block" /\ q.worker = w.worker /\ q.chain = w.chain
          /\ q.taken = <<>> /\ q.merged = 0
          /\ w.chain = c /\ w.worker = run[s].worker /\ w # None
          /\ w.chain \in Chain /\ Len(w.chain) = k /\ Staged(w.chain) /\ w.worker \in Worker
          /\ Len(compact[k]) = FrameCount
  BY <1>2, <1>3, <1>5
<1>7. /\ checkpoint' \in [Blocks -> Record \cup {None}]
      /\ checkpoint'[k] = w
      /\ \A j \in Blocks \ {k} : checkpoint'[j] = checkpoint[j]
  BY <1>3, <1>4, <1>6, Typed DEF IInv
<1>8. /\ run' \in [Supervisor -> RunState] /\ run'[s] = q
      /\ \A t \in Supervisor \ {s} : run'[t] = run[t]
  BY <1>1, <1>4, <1>6
<1>9. RunInv(q)'
  <2>1. Len(q.taken) = 0 /\ DOMAIN q.taken = {}
    BY <1>6
  <2> QED
    BY <1>4, <1>6, <2>1, Counts DEF RunInv, Control, Staged, Taken, Merged, Working
<1>10. TypeOK'
  <2>1. UNCHANGED <<artifact, compact, receipt, overlapped>> /\ TypeOK
    BY <1>4 DEF IInv
  <2> QED
    BY <1>7, <1>8, <2>1 DEF TypeOK, RunState
<1>11. \A t \in Supervisor : RunInv(run[t])'
  <2> SUFFICES ASSUME NEW t \in Supervisor
               PROVE  RunInv(run[t])'
    OBVIOUS
  <2>1. PICK p \in RunState : run'[t] = p /\ RunInv(p)'
    <3>1. CASE t = s
      BY <1>8, <1>9, <3>1
    <3>2. CASE t # s
      <4>1. PICK p \in RunState : p = run[t]
        BY <1>1
      <4>2. RunInv(p)'
        BY <1>4, <4>1 DEF IInv, RunInv, Control, Staged, Taken, Merged
      <4> QED
        BY <1>8, <3>2, <4>1, <4>2
    <3> QED
      BY <3>1, <3>2
  <2> QED
    BY <2>1 DEF RunInv, Control, Staged, Taken, Merged
<1>12. FilesInv'
  <2>1. ASSUME NEW j \in Blocks
        PROVE  CheckpointInv(j)'
    <3>1. CASE j = k
      BY <1>4, <1>6, <1>7, <3>1 DEF CheckpointInv, Staged
    <3>2. CASE j # k
      BY <1>4, <1>7, <3>2 DEF IInv, FilesInv, CheckpointInv, Staged
    <3> QED
      BY <3>1, <3>2
  <2>2. ASSUME NEW j \in Blocks
        PROVE  StateInv(j)'
    <3>1. StateInv(j) /\ UNCHANGED <<artifact, compact>>
      BY <1>4 DEF IInv, FilesInv
    <3> QED
      BY <3>1 DEF StateInv
  <2>3. (receipt # None => Staged(receipt.chain))'
    BY <1>4 DEF IInv, FilesInv, Staged
  <2> QED
    BY <2>1, <2>2, <2>3 DEF FilesInv
<1>13. ASSUME ~overlapped'
       PROVE  Solo'
  <2>1. /\ ~overlapped /\ Solo /\ receipt = None
        /\ Owns(run[s]) /\ \A t \in Supervisor : t = s \/ At(t, "idle")
    BY <1>1, <1>4, <1>13, Busy DEF IInv, At
  <2>2. Alone'
    BY <1>8, <2>1 DEF Alone, At
  <2>3. /\ \A j \in 1 .. k - 1 : Continues(j, w.worker, w.chain)
        /\ \A j \in Blocks : checkpoint[j] # None <=> j <= k - 1
    BY <1>1, <1>6, <2>1 DEF Owns, Installed
  <2>4. k \in Nat /\ k >= 1 /\ \A j \in Blocks : j \in Nat /\ j >= 1
    BY Counts DEF Blocks
  <2>5. \A j \in 1 .. k : Continues(j, w.worker, w.chain)'
    <3> SUFFICES ASSUME NEW j \in 1 .. k
                 PROVE  /\ checkpoint'[j] # None /\ checkpoint'[j].worker = w.worker
                        /\ checkpoint'[j].chain = Prefix(w.chain, j)
      BY DEF Continues, Prefix
    <3>1. CASE j = k
      BY <1>6, <1>7, <3>1, WholePrefix
    <3>2. CASE j # k
      <4>1. j \in 1 .. k - 1 /\ j \in Blocks
        BY <2>4, <3>2, Counts DEF Blocks
      <4> QED
        BY <1>7, <2>3, <3>2, <4>1 DEF Continues
    <3> QED
      BY <3>1, <3>2
  <2>6. ASSUME NEW j \in Blocks
        PROVE  ChainInv(j)'
    <3>1. CASE j = k
      BY <1>4, <1>6, <1>7, <2>5, <3>1 DEF ChainInv
    <3>2. CASE j > k
      <4>1. checkpoint'[j] = None
        BY <1>7, <2>3, <2>4, <3>2
      <4> QED
        BY <4>1 DEF ChainInv
    <3>3. CASE j < k
      <4>1. checkpoint'[j] = checkpoint[j] /\ \A i \in 1 .. j : i \in Blocks /\ i # k
        BY <1>7, <2>4, <3>3, Counts DEF Blocks
      <4>2. \A i \in 1 .. j : checkpoint'[i] = checkpoint[i]
        BY <1>7, <4>1
      <4> QED
        BY <1>4, <2>1, <4>1, <4>2 DEF Solo, ChainInv, Continues
    <3> QED
      BY <2>4, <3>1, <3>2, <3>3
  <2>7. Owns(q)'
    <3>1. \A j \in Blocks : checkpoint'[j] # None <=> j <= k
      <4> SUFFICES ASSUME NEW j \in Blocks
                   PROVE  checkpoint'[j] # None <=> j <= k
        OBVIOUS
      <4>1. CASE j = k
        BY <1>6, <1>7, <2>4, <4>1
      <4>2. CASE j # k
        BY <1>7, <2>3, <2>4, <4>2
      <4> QED
        BY <4>1, <4>2
    <3>2. Installed(q) = k
      BY <1>6 DEF Installed
    <3> QED
      BY <1>6, <2>5, <3>1, <3>2 DEF Owns
  <2>8. ASSUME NEW t \in Supervisor
        PROVE  Owns(run[t])'
    <3>1. CASE t = s
      BY <1>8, <2>7, <3>1 DEF Owns, Continues, Installed
    <3>2. CASE t # s
      BY <1>8, <2>1, <3>2 DEF Owns, At
    <3> QED
      BY <3>1, <3>2
  <2> QED
    BY <1>4, <2>1, <2>2, <2>6, <2>8 DEF Solo
<1> QED
  BY <1>10, <1>11, <1>12, <1>13 DEF IInv

LEMMA InstallReceiptKeeps ==
  ASSUME IInv, NEW s \in Supervisor, InstallReceipt(s)
  PROVE  IInv'
<1> DEFINE e == [worker |-> run[s].worker, chain |-> run[s].chain]
<1>1. /\ run[s] \in RunState /\ RunInv(run[s]) /\ run[s].pc = "receipt"
      /\ run \in [Supervisor -> RunState]
  BY Typed DEF IInv, InstallReceipt, At
<1>2. e \in Record /\ e.chain = run[s].chain /\ e.worker = run[s].worker
      /\ Len(run[s].chain) = BlockCount /\ run[s].chain \in Chain /\ Staged(run[s].chain)
  BY <1>1, RunTyped DEF RunInv, Control, Record
<1>3. /\ receipt' = e /\ run' = [run EXCEPT ![s] = Idle]
      /\ UNCHANGED <<artifact, compact, checkpoint, overlapped>>
  BY DEF InstallReceipt, Update
<1> HIDE DEF e
<1>4. /\ run' \in [Supervisor -> RunState] /\ run'[s] = Idle
      /\ \A t \in Supervisor \ {s} : run'[t] = run[t]
  BY <1>1, <1>3, IdleTyped
<1>5. RunInv(Idle) /\ Owns(Idle) /\ Idle.pc = "idle"
  BY IdleTyped DEF Idle
<1>6. TypeOK'
  <2>1. UNCHANGED <<artifact, compact, checkpoint, overlapped>> /\ TypeOK
    BY <1>3 DEF IInv
  <2> QED
    BY <1>2, <1>3, <1>4, <2>1 DEF TypeOK, RunState
<1>7. \A t \in Supervisor : RunInv(run[t])'
  BY <1>3, <1>4, <1>5 DEF IInv, RunInv, Control, Staged, Taken, Merged
<1>8. FilesInv'
  BY <1>2, <1>3 DEF IInv, FilesInv, CheckpointInv, StateInv, Staged
<1>9. ASSUME ~overlapped'
      PROVE  Solo'
  <2>1. /\ ~overlapped /\ Solo
        /\ Owns(run[s]) /\ \A t \in Supervisor : t = s \/ At(t, "idle")
    BY <1>1, <1>3, <1>9, Busy DEF IInv, At
  <2>2. \A t \in Supervisor : At(t, "idle")'
    BY <1>4, <1>5, <2>1 DEF At
  <2>3. receipt' = checkpoint'[BlockCount]
    <3>1. Continues(BlockCount, run[s].worker, run[s].chain)
      BY <1>1, <1>2, <2>1, Counts DEF Owns, Installed
    <3>2. BlockCount \in Blocks
      BY Counts DEF Blocks
    <3>3. checkpoint[BlockCount] \in Record
      BY <3>1, <3>2, Typed DEF IInv, Continues
    <3>4. checkpoint[BlockCount].worker = e.worker /\ checkpoint[BlockCount].chain = e.chain
      BY <1>2, <3>1, WholePrefix DEF Continues
    <3>5. checkpoint[BlockCount] = e
      BY <1>2, <3>3, <3>4 DEF Record
    <3> QED
      BY <1>3, <3>5
  <2>4. \A t \in Supervisor : Owns(run[t])'
    BY <2>2 DEF Owns, At
  <2>5. \A k \in Blocks : ChainInv(k)'
    BY <1>3, <2>1 DEF Solo, ChainInv, Continues
  <2> QED
    BY <2>2, <2>3, <2>4, <2>5 DEF Solo, Alone
<1> QED
  BY <1>6, <1>7, <1>8, <1>9 DEF IInv

-----------------------------------------------------------------------------
(* Theorems                                                                *)

LEMMA Inductive == IInv /\ [Next]_vars => IInv'
<1> SUFFICES ASSUME IInv, [Next]_vars
             PROVE  IInv'
  OBVIOUS
<1>1. CASE UNCHANGED vars
  BY <1>1 DEF vars, files, IInv, TypeOK, RunInv, Control, Staged, Taken, Merged, FilesInv,
       CheckpointInv, StateInv, Solo, Alone, At, ChainInv, Continues, Owns, Installed
<1>2. ASSUME NEW s \in Supervisor, NEW w \in Worker, NEW n \in Blocks, Start(s, w, n)
      PROVE  IInv'
  BY <1>2, StartKeeps
<1>3. ASSUME NEW s \in Supervisor, ListCheckpoints(s)
      PROVE  IInv'
  BY <1>3, ListKeeps
<1>4. ASSUME NEW s \in Supervisor, ResumeCheckpoint(s)
      PROVE  IInv'
  BY <1>4, ResumeKeeps
<1>5. ASSUME NEW s \in Supervisor, EndResume(s)
      PROVE  IInv'
  BY <1>5, EndResumeKeeps
<1>6. ASSUME NEW s \in Supervisor, NEW b \in Bundle, AdmitBundle(s, b)
      PROVE  IInv'
  BY <1>6, AdmitKeeps
<1>7. ASSUME NEW s \in Supervisor, CheckState(s)
      PROVE  IInv'
  BY <1>7, CheckStateKeeps
<1>8. ASSUME NEW s \in Supervisor, ReplaceState(s)
      PROVE  IInv'
  BY <1>8, ReplaceStateKeeps
<1>9. ASSUME NEW s \in Supervisor, NEW r \in Response, Respond(s, r)
      PROVE  IInv'
  BY <1>9, RespondKeeps
<1>10. ASSUME NEW s \in Supervisor, InstallCheckpoint(s)
       PROVE  IInv'
  BY <1>10, InstallCheckpointKeeps
<1>11. ASSUME NEW s \in Supervisor, Finish(s)
       PROVE  IInv'
  BY <1>11, FinishKeeps
<1>12. ASSUME NEW s \in Supervisor, InstallReceipt(s)
       PROVE  IInv'
  BY <1>12, InstallReceiptKeeps
<1>13. ASSUME NEW s \in Supervisor, End(s)
       PROVE  IInv'
  BY <1>13, EndKeeps DEF End
<1> QED
  BY <1>1, <1>2, <1>3, <1>4, <1>5, <1>6, <1>7, <1>8, <1>9, <1>10, <1>11, <1>12, <1>13 DEF Next

LEMMA Invariant == Spec => []IInv
BY InitInvariant, Inductive, PTL DEF Spec

(* Every field of every process and every file has its type: a run never   *)
(* takes more bundles than a block has targets, nor works past the last    *)
(* block.                                                                  *)
THEOREM TypeCorrect == Spec => []TypeOK
<1>1. IInv => TypeOK
  BY DEF IInv
<1> QED
  BY <1>1, Invariant, PTL

(* What a checkpoint, a state file or the receipt commits to is what is    *)
(* staged: _admit_raw_bundle links a bundle once, and each later run has   *)
(* to match it.                                                            *)
THEOREM CommittedIsStaged == Spec => []BundlesAgree
<1>1. IInv => BundlesAgree
  <2> SUFFICES ASSUME IInv
               PROVE  BundlesAgree
    OBVIOUS
  <2>1. ASSUME NEW k \in Blocks, checkpoint[k] # None, NEW j \in 1 .. k
        PROVE  checkpoint[k].chain[j].bundles = artifact[j]
    <3>1. checkpoint[k] \in Record
      BY <2>1, Typed DEF IInv
    <3>2. /\ checkpoint[k].chain \in Chain /\ Len(checkpoint[k].chain) = k
          /\ Staged(checkpoint[k].chain)
      BY <2>1, <3>1 DEF IInv, FilesInv, CheckpointInv, Record
    <3>3. DOMAIN checkpoint[k].chain = 1 .. k
      BY <3>2, ChainIsSeq
    <3> QED
      BY <3>2, <3>3 DEF Staged
  <2>2. ASSUME NEW k \in Blocks, NEW f \in DOMAIN compact[k]
        PROVE  compact[k][f] = [j \in 1 .. k |-> artifact[j][f]]
    BY DEF IInv, FilesInv, StateInv
  <2>3. receipt # None => \A j \in DOMAIN receipt.chain : receipt.chain[j].bundles = artifact[j]
    BY DEF IInv, FilesInv, Staged
  <2> QED
    BY <2>1, <2>2, <2>3 DEF BundlesAgree
<1> QED
  BY <1>1, Invariant, PTL

(* As long as runs do not overlap, _resume accepts the directory at every  *)
(* moment, for the worker that began it.                                   *)
THEOREM AlwaysResumes == Spec => []DirectoryResumes
<1>1. IInv => DirectoryResumes
  <2> SUFFICES ASSUME IInv, ~overlapped, NEW k \in Blocks, checkpoint[k] # None, NEW j \in 1 .. k
               PROVE  Resumable(checkpoint[j], j, checkpoint[k].worker,
                                SubSeq(checkpoint[k].chain, 1, j - 1))
    BY DEF DirectoryResumes
  <2>1. PICK c \in Chain : c = checkpoint[k].chain /\ Len(c) = k
    BY Typed DEF IInv, FilesInv, CheckpointInv, Record
  <2>2. /\ checkpoint[j] # None /\ checkpoint[j].worker = checkpoint[k].worker
        /\ checkpoint[j].chain = Prefix(c, j)
    BY <2>1 DEF IInv, Solo, ChainInv, Continues
  <2>3. j \in Blocks /\ j \in 1 .. Len(c)
    BY <2>1, Counts DEF Blocks
  <2>4. PICK d \in Chain :
            /\ d = Prefix(c, j) /\ Len(d) = j
            /\ Front(d) = SubSeq(c, 1, j - 1) /\ Last(d) = c[j]
    BY <2>3, PrefixSubSeq
  <2>5. Staged(c) /\ DOMAIN c = 1 .. Len(c)
    BY <2>1, ChainIsSeq DEF IInv, FilesInv, CheckpointInv
  <2>6. artifact[j] = Last(d).bundles
    BY <2>3, <2>4, <2>5 DEF Staged
  <2>7. compact[j] = [f \in 1 .. FrameCount |-> Merge(d, f)]
    <3>1. Len(compact[j]) = FrameCount
      BY <2>2, <2>3 DEF IInv, Solo, ChainInv
    <3>2. compact[j] \in UNION {[1 .. f -> State] : f \in 0 .. FrameCount}
      BY <2>3, Typed DEF IInv
    <3>3. compact[j] \in [1 .. FrameCount -> State]
      BY <3>1, <3>2, FramesAreSeq
    <3>4. DOMAIN d = 1 .. j /\ \A i \in 1 .. j : d[i].bundles = artifact[i]
      <4>1. DOMAIN d = 1 .. j
        BY <2>4, ChainIsSeq
      <4>2. \A i \in 1 .. j : d[i] = c[i] /\ i \in DOMAIN c
        BY <2>1, <2>4, <2>5, Counts DEF Prefix, Blocks
      <4> QED
        BY <2>5, <4>1, <4>2 DEF Staged
    <3>5. \A f \in 1 .. FrameCount : Merge(d, f) = [i \in 1 .. j |-> artifact[i][f]]
      BY <3>4 DEF Merge
    <3>6. \A f \in 1 .. FrameCount : compact[j][f] = [i \in 1 .. j |-> artifact[i][f]]
      BY <2>3, <3>3 DEF IInv, FilesInv, StateInv
    <3> QED
      BY <3>3, <3>5, <3>6
  <2> QED
    BY <2>1, <2>2, <2>4, <2>6, <2>7 DEF Resumable
<1> QED
  BY <1>1, Invariant, PTL

(* As long as runs do not overlap, the receipt of the lane is for the last *)
(* checkpoint.                                                             *)
THEOREM ReceiptsMatch == Spec => []ReceiptIsDirectory
<1>1. IInv => ReceiptIsDirectory
  BY DEF IInv, Solo, ReceiptIsDirectory
<1> QED
  BY <1>1, Invariant, PTL
=============================================================================
