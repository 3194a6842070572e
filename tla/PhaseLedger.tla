---------------------------- MODULE PhaseLedger -----------------------------
(***************************************************************************)
(* What a two-phase campaign promises of its records, whoever writes them: *)
(* each shard is recorded once in each phase, the second phase starts when *)
(* the first is complete, and the certificate is the two complete tables.  *)
(***************************************************************************)
CONSTANTS Shards, First, Second, None

VARIABLES
    first,          \* first[i]: the first-phase record of shard i, or None
    second,         \* second[i]: its second-phase record, or None
    certificate     \* the two tables a certificate commits to, or None

vars == <<first, second, certificate>>

Complete(t) == \A i \in Shards : t[i] # None

Init ==
    /\ first = [i \in Shards |-> None]
    /\ second = [i \in Shards |-> None]
    /\ certificate = None

RecordFirst(i) ==
    /\ first[i] = None
    /\ \E r \in First : first' = [first EXCEPT ![i] = r]
    /\ UNCHANGED <<second, certificate>>

RecordSecond(i) ==
    /\ Complete(first)
    /\ second[i] = None
    /\ \E r \in Second : second' = [second EXCEPT ![i] = r]
    /\ UNCHANGED <<first, certificate>>

Certify ==
    /\ certificate = None
    /\ Complete(first)
    /\ Complete(second)
    /\ certificate' = [derived |-> first, verified |-> second]
    /\ UNCHANGED <<first, second>>

Next == (\E i \in Shards : RecordFirst(i) \/ RecordSecond(i)) \/ Certify

Spec == Init /\ [][Next]_vars
=============================================================================
