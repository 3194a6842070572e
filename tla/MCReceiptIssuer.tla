--------------------------- MODULE MCReceiptIssuer ---------------------------
(* Instances of ReceiptIssuer for TLC.                                       *)
EXTENDS ReceiptIssuer, TLC

CONSTANTS i1, i2, n1, n2, b1, b2, b3, c1, c2, c3, o1, o2

(* Two runs claim the nonce n1, and two challenges state it; n2 has one each. *)
SharedNonce == [b \in Bundle |-> IF b = b3 THEN n2 ELSE n1]
SharedNonceStated == [c \in Challenge |-> IF c = c3 THEN n2 ELSE n1]

(* Every run with its evidence, one of them with evidence for two challenges. *)
Runs == {<<b1, c1>>, <<b1, c2>>, <<b2, c2>>, <<b3, c3>>}
CommandLines == {[bundle |-> r[1], path |-> p,
                  pack |-> [challenge |-> r[2], bundle |-> r[1]], out |-> o] :
                   r \in Runs, p \in Path, o \in Out}

Symmetry == Permutations(Issuer) \cup Permutations(Out)
=============================================================================
