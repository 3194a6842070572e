--------------------------- MODULE CampaignLedger ---------------------------
(***************************************************************************)
(* What the Platt PT21 scheduler promises, whatever its workers, leases,   *)
(* checkpoints, prunings and crashes do: the finished units only grow, a   *)
(* shard is closed only when all its units are finished, and the campaign  *)
(* is published only when every shard is closed; nothing is ever undone.   *)
(***************************************************************************)
EXTENDS WindowedGeometry

VARIABLES
    done,      \* units whose result is retained, by themselves or in their shard
    closed,    \* shards whose aggregate is retained
    published  \* whether the campaign artifact exists

lvars == <<done, closed, published>>

Init == done = {} /\ closed = {} /\ published = FALSE

FinishUnit(u) ==
    /\ done' = done \cup {u}
    /\ UNCHANGED <<closed, published>>

CloseShard(s) ==
    /\ UnitsOf(s) \subseteq done
    /\ closed' = closed \cup {s}
    /\ UNCHANGED <<done, published>>

Publish ==
    /\ closed = Shards
    /\ published' = TRUE
    /\ UNCHANGED <<done, closed>>

Next ==
    \/ \E u \in Units : FinishUnit(u)
    \/ \E s \in Shards : CloseShard(s)
    \/ Publish

Spec == Init /\ [][Next]_lvars

=============================================================================
