----------------------------- MODULE OrderedSteps -----------------------------
(* What the operator's journal promises about a campaign: steps are taken in *)
(* order, the side effect of a step is attempted at most once, and an        *)
(* artifact is adopted once, for an attempted step, and kept.                *)
EXTENDS Integers

CONSTANTS Steps, Manual, Artifact, None

VARIABLES attempted, adopted

Init == attempted = {} /\ adopted = [k \in Steps |-> None]

Reached(k) == \A j \in Steps : j < k => adopted[j] # None

Attempt(k) == /\ k \notin attempted /\ adopted[k] = None
              /\ Reached(k)
              /\ attempted' = attempted \cup {k}
              /\ UNCHANGED adopted

Adopt(k, a) == /\ k \in attempted \cup Manual /\ adopted[k] = None
               /\ Reached(k)
               /\ adopted' = [adopted EXCEPT ![k] = a]
               /\ UNCHANGED attempted

Next == \E k \in Steps : Attempt(k) \/ \E a \in Artifact : Adopt(k, a)

Spec == Init /\ [][Next]_<<attempted, adopted>>
===============================================================================
