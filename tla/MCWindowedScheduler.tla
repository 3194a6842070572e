------------------------ MODULE MCWindowedScheduler ------------------------
(***************************************************************************)
(* Small instances of WindowedScheduler for TLC.                           *)
(***************************************************************************)
EXTENDS WindowedScheduler, TLC

\* Block b holds b mod 2 zeros, so counts repeat and neighbours differ.
ZerosBelow(b) == b \div 2
Exact(b) == [lo |-> ZerosBelow(b), hi |-> ZerosBelow(b + 1)]

\* The pinned runner on a machine that computes correctly.
MCDeterministic == [b \in Blocks |-> {Exact(b)}]

\* A runner that miscounts by one at some heights: a faulty machine.
MCFaulty ==
    [b \in Blocks |-> {Exact(b), [lo |-> ZerosBelow(b) + 1, hi |-> ZerosBelow(b + 1) + 1]}]

MCBeginsAt == {0}

Everything == [from |-> 0, stride |-> 1, offset |-> 0]

MCLaunchAll == [w \in Workers |-> {Everything}]

\* A scan of every unit, or of the odd units only.
MCLaunchPart == [w \in Workers |-> {Everything, [from |-> 0, stride |-> 2, offset |-> 1]}]

MCFirst == CHOOSE w \in Workers : TRUE

\* One node stays lost after a fault; the other is supervised.
MCOneSupervised == {MCFirst}

MCNoUnits == {}
MCUnits == Units

MCWorkers == Permutations(Workers)
MCOperators == Permutations(Operators)

=============================================================================
