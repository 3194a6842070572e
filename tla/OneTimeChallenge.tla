-------------------------- MODULE OneTimeChallenge --------------------------
(* What the receipt issuer promises about a retained challenge: it is burned *)
(* once, for one run, and a burned challenge leads to at most one receipt,   *)
(* which is never replaced or withdrawn.                                     *)
CONSTANTS Nonce, Receipt, None

VARIABLES burned, issued

Init == burned = {} /\ issued = [n \in Nonce |-> None]

Burn(n) == /\ n \notin burned
           /\ burned' = burned \cup {n}
           /\ UNCHANGED issued

Issue(n, r) == /\ n \in burned
               /\ issued[n] = None
               /\ issued' = [issued EXCEPT ![n] = r]
               /\ UNCHANGED burned

Next == \E n \in Nonce : Burn(n) \/ \E r \in Receipt : Issue(n, r)

Spec == Init /\ [][Next]_<<burned, issued>>
=============================================================================
