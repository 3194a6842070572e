-------------------------- MODULE MCAffineCampaign --------------------------
(***************************************************************************)
(* A small instance of AffineCampaign for TLC.                             *)
(***************************************************************************)
EXTENDS AffineCampaign

\* The machine that runs shard 0 may miscount, in its delta or its rows.
MCReport ==
    [i \in 0 .. 1 |->
        IF i = 0 THEN {[delta |-> 1, row |-> "a"], [delta |-> 2, row |-> "a"]}
                 ELSE {[delta |-> 1, row |-> "a"]}]

\* Summaries of shard 0 already differ in their report; verify receipts that
\* replay the same table differ only in their timing.
MCStamp == [p \in {"summary", "verify"} |-> IF p = "summary" THEN {1} ELSE {1, 2}]
=============================================================================
