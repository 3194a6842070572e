------------------------- MODULE ReceiptIssuerProofs -------------------------
(* For any number of issuers, challenges, bundles and paths: a challenge     *)
(* yields at most one signature and one receipt, and failure remains spent.  *)
EXTENDS ReceiptIssuer, TLAPS

(* A call that has burned its challenge still owns the exact row, alone.     *)
Owns == /\ \A i \in Issuer :
             call[i].pc \in Burning => row[NonceOfCall(i)] = ExactRow(i)
        /\ \A i, j \in Issuer :
             /\ i # j
             /\ call[i].pc \in Burning /\ call[j].pc \in Burning
             => NonceOfCall(i) # NonceOfCall(j)

ChallengesDiffer ==
  \A m, n \in Nonce :
    /\ m # n /\ row[m] # None /\ row[n] # None
    => row[m].challenge # row[n].challenge

(* Nothing is signed before the row exists, nor while the signer is awaited. *)
SignedOnce ==
  /\ OneSignature
  /\ \A n \in Nonce : row[n] = None => signings[n] = 0
  /\ \A i \in Issuer : call[i].pc \in {"appraise", "sign"} =>
                         signings[NonceOfCall(i)] = 0

Appraised == \A i \in Issuer :
               call[i].pc \in {"sign", "install", "mark"} => Supported(i)

(* The receipt column is set exactly when the row is signed.                 *)
SignedNamesReceipt ==
  \A n \in Nonce :
    row[n] # None =>
      (row[n].status = "signed" <=> row[n].receipt # None)

(* A call that has not installed its receipt finds none for its nonce; one   *)
(* that is about to mark its row has installed it.                           *)
Installs ==
  /\ \A i \in Issuer, o \in Out :
       /\ call[i].pc \in {"appraise", "sign", "install"}
       /\ receipts[o] # None
       => receipts[o].nonce # NonceOfCall(i)
  /\ \A i \in Issuer :
       call[i].pc = "mark" => receipts[call[i].args.out] = ReceiptOfCall(i)

IInv == /\ TypeOK /\ Owns /\ ChallengesDiffer /\ SignedOnce /\ Appraised
        /\ SignedNamesReceipt /\ Installs /\ OneReceipt /\ ReceiptAccounted
        /\ SignedHasReceipt

-----------------------------------------------------------------------------
(* What TypeOK says of a call that has begun, and of one past its snapshot.  *)
LEMMA CallTyped ==
  ASSUME TypeOK, NEW i \in Issuer
  PROVE  /\ call[i].pc = "snapshot" \/ call[i].pc = "reserve" \/ call[i].pc \in Burning
             => /\ call[i].args \in Args
                /\ NonceOfCall(i) \in Nonce
                /\ ReceiptOfCall(i) \in Receipt
         /\ call[i].pc = "reserve" \/ call[i].pc \in Burning
             => /\ call[i].challenge \in Challenge
                /\ ExactRow(i) \in Row
                /\ call[i] = [pc |-> call[i].pc, args |-> call[i].args,
                             challenge |-> call[i].challenge]
         /\ call[i].pc \in {"idle", "snapshot", "reserve"} \cup Burning
<1>1. call[i] \in Call
  BY DEF TypeOK
<1>2. CASE call[i] = Idle
  BY <1>2 DEF Idle, Burning
<1>3. CASE call[i] \in [pc : {"snapshot"}, args : Args]
  BY <1>3, ConstantsAssumption
     DEF Burning, Args, NonceOfCall, ReceiptOfCall, Receipt
<1>4. CASE call[i] \in [pc : {"reserve"} \cup Burning, args : Args,
                       challenge : Challenge]
  BY <1>4, ConstantsAssumption
     DEF Burning, Args, NonceOfCall, ReceiptOfCall, Receipt, ExactRow, Row
<1> QED
  BY <1>1, <1>2, <1>3, <1>4 DEF Call

(* Types are preserved by every step.                                        *)
LEMMA TypeInductive == TypeOK /\ [Next]_vars => TypeOK'
<1> SUFFICES ASSUME TypeOK, [Next]_vars
             PROVE  TypeOK'
  OBVIOUS
<1>1. ASSUME NEW i \in Issuer, Begin(i)
      PROVE  TypeOK'
  <2>1. PICK a \in Args : Becomes(i, [pc |-> "snapshot", args |-> a])
    BY <1>1, ConstantsAssumption DEF Begin
  <2>2. [pc |-> "snapshot", args |-> a] \in Call
    BY DEF Call
  <2>3. call' \in [Issuer -> Call]
    BY <2>1, <2>2 DEF TypeOK, Becomes
  <2> QED
    BY <1>1, <2>3 DEF Begin, TypeOK
<1>2. ASSUME NEW i \in Issuer, Snapshot(i)
      PROVE  TypeOK'
  <2>1. call[i].args \in Args
    BY <1>2, CallTyped DEF Snapshot, At
  <2>2. retained[call[i].args.path] \in Challenge
    BY <2>1 DEF Args, TypeOK
  <2>3. [pc |-> "reserve", args |-> call[i].args,
         challenge |-> retained[call[i].args.path]] \in Call
    BY <2>1, <2>2 DEF Call
  <2>4. call' \in [Issuer -> Call]
    BY <1>2, <2>3 DEF Snapshot, TypeOK, Becomes
  <2> QED
    BY <1>2, <2>4 DEF Snapshot, TypeOK
<1>3. ASSUME NEW i \in Issuer, NEW pc \in Burning,
             call[i].pc = "reserve" \/ call[i].pc \in Burning,
             Continue(i, pc)
      PROVE  call' \in [Issuer -> Call]
  <2>1. [call[i] EXCEPT !.pc = pc]
          = [pc |-> pc, args |-> call[i].args, challenge |-> call[i].challenge]
    <3>1. PICK a, c, q : call[i] = [pc |-> q, args |-> a, challenge |-> c]
      BY <1>3, CallTyped
    <3> QED
      BY <3>1
  <2>2. call[i].args \in Args /\ call[i].challenge \in Challenge
    BY <1>3, CallTyped
  <2>3. [pc |-> pc, args |-> call[i].args, challenge |-> call[i].challenge] \in Call
    BY <1>3, <2>2 DEF Call
  <2> QED
    BY <1>3, <2>1, <2>3 DEF Continue, Becomes, TypeOK
<1>4. ASSUME NEW i \in Issuer, Becomes(i, Idle)
      PROVE  call' \in [Issuer -> Call]
  BY <1>4 DEF Becomes, TypeOK, Call
<1>5. ASSUME NEW i \in Issuer, Reserve(i)
      PROVE  TypeOK'
  <2>1. ExactRow(i) \in Row /\ NonceOfCall(i) \in Nonce
    BY <1>5, CallTyped DEF Reserve, At
  <2>2. row' = [row EXCEPT ![NonceOfCall(i)] = ExactRow(i)]
    BY <1>5 DEF Reserve, ExactRow
  <2>3. call' \in [Issuer -> Call]
    BY <1>3, <1>5 DEF Reserve, At, Burning
  <2> QED
    BY <1>5, <2>1, <2>2, <2>3 DEF Reserve, TypeOK
<1>6. ASSUME NEW i \in Issuer, Appraise(i)
      PROVE  TypeOK'
  <2>1. call' \in [Issuer -> Call]
    BY <1>3, <1>6 DEF Appraise, At, Burning
  <2> QED
    BY <1>6, <2>1 DEF Appraise, TypeOK
<1>7. ASSUME NEW i \in Issuer, Sign(i)
      PROVE  TypeOK'
  <2>1. call' \in [Issuer -> Call]
    BY <1>3, <1>4, <1>7 DEF Sign, At, Burning
  <2>2. NonceOfCall(i) \in Nonce
    BY <1>7, CallTyped DEF Sign, At, Burning
  <2> QED
    BY <1>7, <2>1, <2>2 DEF Sign, TypeOK
<1>8. ASSUME NEW i \in Issuer, Install(i)
      PROVE  TypeOK'
  <2>1. call' \in [Issuer -> Call]
    BY <1>3, <1>8 DEF Install, At, Burning
  <2>2. ReceiptOfCall(i) \in Receipt
    BY <1>8, CallTyped DEF Install, At, Burning
  <2> QED
    BY <1>8, <2>1, <2>2 DEF Install, TypeOK
<1>9. ASSUME NEW i \in Issuer, MarkSigned(i)
      PROVE  TypeOK'
  <2>1. call' \in [Issuer -> Call]
    BY <1>4, <1>9 DEF MarkSigned
  <2>2. ReceiptOfCall(i) \in Receipt /\ NonceOfCall(i) \in Nonce /\ ExactRow(i) \in Row
    BY <1>9, CallTyped DEF MarkSigned, At, Burning
  <2>3. [ExactRow(i) EXCEPT !.status = "signed", !.receipt = ReceiptOfCall(i)] \in Row
    BY <2>2 DEF Row
  <2> QED
    BY <1>9, <2>1, <2>2, <2>3 DEF MarkSigned, TypeOK
<1>10. ASSUME NEW i \in Issuer, Fail(i)
       PROVE  TypeOK'
  BY <1>4, <1>10 DEF Fail, TypeOK
<1>11. ASSUME NEW p \in Path, NEW c \in Challenge, StoreChallenge(p, c)
       PROVE  TypeOK'
  BY <1>11 DEF StoreChallenge, TypeOK
<1>12. CASE UNCHANGED vars
  BY <1>12 DEF vars, TypeOK
<1> QED
  BY <1>1, <1>2, <1>5, <1>6, <1>7, <1>8, <1>9, <1>10, <1>11, <1>12
     DEF Next, Step

(* The variables have their types in every reachable state.                  *)
THEOREM TypeCorrect == Spec => []TypeOK
<1>1. Init => TypeOK
  BY DEF Init, TypeOK, Call
<1> QED
  BY <1>1, TypeInductive, PTL DEF Spec

-----------------------------------------------------------------------------
(* A step of one issuer leaves the local state of the others alone.          *)
LEMMA Frame ==
  ASSUME TypeOK, NEW i \in Issuer, NEW c, Becomes(i, c)
  PROVE  /\ call'[i] = c
         /\ \A j \in Issuer : j # i => call'[j] = call[j]
BY DEF Becomes, TypeOK

(* Moving on keeps a call's arguments and its copy of the challenge.         *)
LEMMA Moved ==
  ASSUME TypeOK, NEW i \in Issuer, NEW q, Continue(i, q),
         call[i].pc = "reserve" \/ call[i].pc \in Burning
  PROVE  /\ call'[i].pc = q
         /\ call'[i].args = call[i].args
         /\ call'[i].challenge = call[i].challenge
         /\ \A j \in Issuer : j # i => call'[j] = call[j]
<1>1. PICK a, c, r : call[i] = [pc |-> r, args |-> a, challenge |-> c]
  BY CallTyped
<1>2. call'[i] = [call[i] EXCEPT !.pc = q]
  BY Frame DEF Continue
<1>3. \A j \in Issuer : j # i => call'[j] = call[j]
  BY Frame DEF Continue
<1> QED
  BY <1>1, <1>2, <1>3

(* A step that writes no file and moves one call to a state in which it owns *)
(* nothing, or along with what it owns, keeps the invariant.                 *)
LEMMA QuietStep ==
  ASSUME IInv, TypeOK', UNCHANGED <<row, receipts, signings>>,
         \A i \in Issuer :
           call'[i].pc \in Burning =>
             /\ call[i].pc \in Burning
             /\ NonceOfCall(i)' = NonceOfCall(i)
             /\ ExactRow(i)' = ExactRow(i)
             /\ ReceiptOfCall(i)' = ReceiptOfCall(i)
             /\ call'[i].args.out = call[i].args.out
             /\ call'[i].pc \in {"sign", "install", "mark"} =>
                  Supported(i)'
             /\ call'[i].pc \in {"appraise", "sign"} =>
                  call[i].pc \in {"appraise", "sign"}
             /\ call'[i].pc = "install" =>
                  call[i].pc \in {"appraise", "sign", "install"}
             /\ call'[i].pc = "mark" => call[i].pc = "mark"
  PROVE  IInv'
<1>1. Owns'
  BY DEF IInv, Owns
<1>2. ChallengesDiffer'
  BY DEF IInv, ChallengesDiffer
<1>3. SignedOnce'
  BY DEF IInv, SignedOnce, OneSignature, Burning
<1>4. Appraised'
  BY DEF IInv, Appraised, Burning
<1>5. Installs'
  BY DEF IInv, Installs, Burning
<1>6. OneReceipt' /\ ReceiptAccounted' /\ SignedHasReceipt'
  BY DEF IInv, OneReceipt, ReceiptAccounted, SignedHasReceipt
<1>7. SignedNamesReceipt'
  BY DEF IInv, SignedNamesReceipt
<1> QED
  BY <1>1, <1>2, <1>3, <1>4, <1>5, <1>6, <1>7 DEF IInv

(* Burning a challenge: the row is new, so no other call owns it, nothing    *)
(* was signed for it and no receipt names it.                                *)
LEMMA ReserveStep ==
  ASSUME IInv, TypeOK', NEW i \in Issuer, Reserve(i)
  PROVE  IInv'
<1> DEFINE n == NonceOfCall(i)
<1>1. /\ n \in Nonce /\ row[n] = None
      /\ row' = [row EXCEPT ![n] = ExactRow(i)]
      /\ ExactRow(i) \in Row /\ ExactRow(i) # None
      /\ ~ChallengeSpent(call[i].challenge)
      /\ UNCHANGED <<receipts, signings>>
  BY CallTyped, ConstantsAssumption DEF IInv, Reserve, At, ExactRow
<1>2. /\ call'[i].pc = "appraise" /\ call'[i].args = call[i].args
      /\ call'[i].challenge = call[i].challenge
      /\ \A j \in Issuer : j # i => call'[j] = call[j]
  BY Moved DEF IInv, Reserve, At
<1>3. NonceOfCall(i)' = n /\ ExactRow(i)' = ExactRow(i)
  BY <1>2 DEF NonceOfCall, ExactRow
<1>4. \A j \in Issuer : j # i =>
        /\ NonceOfCall(j)' = NonceOfCall(j) /\ ExactRow(j)' = ExactRow(j)
        /\ ReceiptOfCall(j)' = ReceiptOfCall(j)
        /\ Supported(j)' = Supported(j)
  BY <1>2 DEF NonceOfCall, ExactRow, ReceiptOfCall, Supported
<1>5. row'[n] = ExactRow(i) /\ \A m \in Nonce : m # n => row'[m] = row[m]
  BY <1>1 DEF IInv, TypeOK
<1>6. \A j \in Issuer : j # i /\ call[j].pc \in Burning =>
        /\ NonceOfCall(j) \in Nonce /\ NonceOfCall(j) # n
        /\ row[NonceOfCall(j)] = ExactRow(j)
  <2> SUFFICES ASSUME NEW j \in Issuer, j # i, call[j].pc \in Burning
               PROVE  /\ NonceOfCall(j) \in Nonce /\ NonceOfCall(j) # n
                      /\ row[NonceOfCall(j)] = ExactRow(j)
    OBVIOUS
  <2>1. NonceOfCall(j) \in Nonce /\ ExactRow(j) \in Row
    BY CallTyped DEF IInv
  <2>2. row[NonceOfCall(j)] = ExactRow(j)
    BY DEF IInv, Owns
  <2> QED
    BY <2>1, <2>2, <1>1, ConstantsAssumption
<1>7. \A o \in Out : receipts[o] # None => receipts[o].nonce # n
  BY <1>1 DEF IInv, ReceiptAccounted
<1>8. \A o \in Out : receipts[o] # None => receipts[o].nonce \in Nonce
  BY DEF IInv, TypeOK, Receipt
<1> HIDE DEF n
<1>9. Owns'
  BY <1>2, <1>3, <1>4, <1>5, <1>6 DEF Owns, IInv
<1>10. ChallengesDiffer'
  <2>1. ExactRow(i).challenge = call[i].challenge
    BY DEF ExactRow
  <2> QED
    BY <1>1, <1>5, <2>1 DEF ChallengesDiffer, IInv, ChallengeSpent
<1>11. SignedOnce'
  BY <1>1, <1>2, <1>3, <1>4, <1>5, <1>6
     DEF SignedOnce, IInv, OneSignature, Burning
<1>12. Appraised'
  BY <1>2, <1>4 DEF Appraised, IInv
<1>13. Installs'
  BY <1>1, <1>2, <1>3, <1>4, <1>7 DEF Installs, IInv
<1>14. OneReceipt'
  BY <1>1 DEF OneReceipt, IInv
<1>15. ReceiptAccounted'
  BY <1>1, <1>5, <1>7, <1>8 DEF ReceiptAccounted, IInv
<1>16. SignedHasReceipt'
  <2>1. ExactRow(i).status = "reserved"
    BY DEF ExactRow
  <2> QED
    BY <1>1, <1>5, <2>1 DEF SignedHasReceipt, IInv
<1>17. SignedNamesReceipt'
  BY <1>1, <1>5 DEF SignedNamesReceipt, IInv, ExactRow
<1> QED
  BY <1>9, <1>10, <1>11, <1>12, <1>13, <1>14, <1>15, <1>16, <1>17 DEF IInv

(* Signing: the call was the only one that could sign for its nonce, and is  *)
(* past it afterwards.                                                       *)
LEMMA SignStep ==
  ASSUME IInv, TypeOK', NEW i \in Issuer, Sign(i)
  PROVE  IInv'
<1> DEFINE n == NonceOfCall(i)
<1>1. n \in Nonce /\ call[i].pc = "sign" /\ call[i].pc \in Burning
  BY CallTyped DEF IInv, Sign, At, Burning
<1>2. /\ signings'[n] = signings[n] + 1
      /\ \A m \in Nonce : m # n => signings'[m] = signings[m]
      /\ UNCHANGED <<row, receipts>>
  BY <1>1 DEF IInv, TypeOK, Sign
<1>3. signings[n] = 0 /\ row[n] = ExactRow(i) /\ ExactRow(i) # None
  BY <1>1, CallTyped, ConstantsAssumption DEF IInv, SignedOnce, Owns
<1>4. /\ \A j \in Issuer : j # i => call'[j] = call[j]
      /\ \/ /\ call'[i].pc = "install" /\ call'[i].args = call[i].args
            /\ call'[i].challenge = call[i].challenge
         \/ call'[i].pc = "idle"
  <2>1. CASE Continue(i, "install")
    BY <1>1, <2>1, Moved DEF IInv
  <2>2. CASE Becomes(i, Idle)
    BY <2>2, Frame DEF IInv, Idle
  <2> QED
    BY <2>1, <2>2 DEF Sign
<1>5. \A j \in Issuer : call'[j].pc \in Burning =>
        /\ NonceOfCall(j)' = NonceOfCall(j) /\ ExactRow(j)' = ExactRow(j)
        /\ ReceiptOfCall(j)' = ReceiptOfCall(j)
        /\ Supported(j)' = Supported(j)
        /\ call'[j].args.out = call[j].args.out
        /\ call[j].pc \in Burning
  BY <1>1, <1>4 DEF NonceOfCall, ExactRow, ReceiptOfCall, Supported, Burning
<1>6. \A j \in Issuer : j # i /\ call[j].pc \in Burning => NonceOfCall(j) # n
  BY <1>1 DEF IInv, Owns
<1> HIDE DEF n
<1>7. Owns'
  BY <1>2, <1>5 DEF Owns, IInv
<1>8. SignedOnce'
  <2>1. OneSignature'
    BY <1>2, <1>3 DEF OneSignature, SignedOnce, IInv
  <2>2. \A m \in Nonce : row'[m] = None => signings'[m] = 0
    BY <1>2, <1>3 DEF SignedOnce, IInv
  <2>3. ASSUME NEW j \in Issuer, call'[j].pc \in {"appraise", "sign"}
        PROVE  signings'[NonceOfCall(j)'] = 0
    <3>1. j # i /\ call[j].pc \in {"appraise", "sign"} /\ call[j].pc \in Burning
      BY <1>4, <2>3 DEF Burning
    <3>2. NonceOfCall(j)' = NonceOfCall(j)
      BY <1>4, <3>1 DEF NonceOfCall
    <3>3. NonceOfCall(j) \in Nonce
      BY <3>1, CallTyped DEF IInv
    <3> QED
      BY <1>2, <1>6, <3>1, <3>2, <3>3 DEF SignedOnce, IInv
  <2> QED
    BY <2>1, <2>2, <2>3 DEF SignedOnce
<1>9. Appraised'
  BY <1>1, <1>4, <1>5 DEF Appraised, IInv, Burning
<1>10. Installs'
  BY <1>1, <1>2, <1>4, <1>5 DEF Installs, IInv, Burning
<1>11. /\ ChallengesDiffer' /\ OneReceipt' /\ ReceiptAccounted'
       /\ SignedHasReceipt' /\ SignedNamesReceipt'
  BY <1>2 DEF ChallengesDiffer, OneReceipt, ReceiptAccounted,
              SignedHasReceipt, SignedNamesReceipt, IInv
<1> QED
  BY <1>7, <1>8, <1>9, <1>10, <1>11 DEF IInv

(* Installing: no other path holds a receipt for this nonce, and by the rows *)
(* none holds one for this challenge.                                        *)
LEMMA InstallStep ==
  ASSUME IInv, TypeOK', NEW i \in Issuer, Install(i)
  PROVE  IInv'
<1> DEFINE n == NonceOfCall(i)
           out == call[i].args.out
           r == ReceiptOfCall(i)
<1>1. /\ n \in Nonce /\ call[i].pc = "install" /\ call[i].pc \in Burning
      /\ out \in Out /\ r \in Receipt /\ r # None
      /\ r.nonce = n /\ r.bundle = call[i].args.bundle
      /\ r.pack = call[i].args.pack
  BY CallTyped, ConstantsAssumption
     DEF IInv, Install, At, Burning, Args, ReceiptOfCall
<1>2. /\ receipts[out] = None /\ receipts'[out] = r
      /\ \A o \in Out : o # out => receipts'[o] = receipts[o]
      /\ UNCHANGED <<row, signings>>
  BY <1>1 DEF IInv, TypeOK, Install
<1>3. /\ call'[i].pc = "mark" /\ call'[i].args = call[i].args
      /\ call'[i].challenge = call[i].challenge
      /\ \A j \in Issuer : j # i => call'[j] = call[j]
  BY <1>1, Moved DEF IInv, Install
<1>4. \A j \in Issuer : call'[j].pc \in Burning =>
        /\ NonceOfCall(j)' = NonceOfCall(j) /\ ExactRow(j)' = ExactRow(j)
        /\ ReceiptOfCall(j)' = ReceiptOfCall(j)
        /\ Supported(j)' = Supported(j)
        /\ call'[j].args.out = call[j].args.out
        /\ call[j].pc \in Burning
  BY <1>1, <1>3 DEF NonceOfCall, ExactRow, ReceiptOfCall, Supported
<1>5. /\ row[n] = ExactRow(i) /\ ExactRow(i) # None
      /\ ExactRow(i).bundle = r.bundle
      /\ ExactRow(i).challenge = call[i].challenge
      /\ r.pack.challenge = call[i].challenge
      /\ ChallengeNonce[call[i].challenge] = n
  <2>1. row[n] = ExactRow(i) /\ ExactRow(i) # None
    BY <1>1, CallTyped, ConstantsAssumption DEF IInv, Owns
  <2>2. Supported(i)
    BY <1>1 DEF IInv, Appraised
  <2> QED
    BY <1>1, <2>1, <2>2 DEF Supported, ExactRow
<1>6. \A o \in Out : receipts[o] # None =>
        receipts[o].nonce \in Nonce /\ receipts[o].nonce # n
  BY <1>1 DEF IInv, TypeOK, Receipt, Installs
<1>7. \A j \in Issuer : j # i /\ call[j].pc \in Burning => NonceOfCall(j) # n
  BY <1>1 DEF IInv, Owns
<1>8. \A o \in Out : receipts[o] # None =>
        receipts[o].pack.challenge # r.pack.challenge
  <2> SUFFICES ASSUME NEW o \in Out, receipts[o] # None
               PROVE  receipts[o].pack.challenge # r.pack.challenge
    OBVIOUS
  <2>1. /\ row[receipts[o].nonce] # None
        /\ row[receipts[o].nonce].challenge = receipts[o].pack.challenge
    BY DEF IInv, ReceiptAccounted
  <2> QED
    BY <2>1, <1>1, <1>5, <1>6 DEF IInv, ChallengesDiffer
<1> HIDE DEF n, out, r
<1>9. Owns'
  BY <1>2, <1>4 DEF Owns, IInv
<1>10. SignedOnce'
  <2>1. \A j \in Issuer : call'[j].pc \in {"appraise", "sign"} =>
          call'[j] = call[j] /\ NonceOfCall(j)' = NonceOfCall(j)
    BY <1>3, <1>4 DEF Burning
  <2> QED
    BY <1>2, <2>1 DEF SignedOnce, OneSignature, IInv
<1>11. Appraised'
  BY <1>1, <1>3, <1>4 DEF Appraised, IInv, Burning
<1>12. Installs'
  <2>1. ASSUME NEW j \in Issuer, NEW o \in Out, receipts'[o] # None,
               call'[j].pc \in {"appraise", "sign", "install"}
        PROVE  receipts'[o].nonce # NonceOfCall(j)'
    <3>1. j # i /\ call'[j] = call[j] /\ NonceOfCall(j)' = NonceOfCall(j)
          /\ call[j].pc \in Burning
      BY <2>1, <1>3, <1>4 DEF Burning
    <3>2. CASE o = out
      BY <3>1, <3>2, <1>1, <1>2, <1>7
    <3>3. CASE o # out
      BY <2>1, <3>1, <3>3, <1>2 DEF Installs, IInv
    <3> QED
      BY <3>2, <3>3
  <2>2. ASSUME NEW j \in Issuer, call'[j].pc = "mark"
        PROVE  receipts'[call'[j].args.out] = ReceiptOfCall(j)'
    <3>1. CASE j = i
      BY <3>1, <1>1, <1>2, <1>3, <1>4, <2>2 DEF Burning, out, r
    <3>2. CASE j # i
      <4>1. /\ call[j].pc = "mark" /\ call'[j].args.out = call[j].args.out
            /\ ReceiptOfCall(j)' = ReceiptOfCall(j) /\ call[j].args.out \in Out
            /\ ReceiptOfCall(j) \in Receipt
        BY <3>2, <2>2, <1>3, <1>4, CallTyped DEF Burning, IInv, Args
      <4>2. receipts[call[j].args.out] = ReceiptOfCall(j)
        BY <4>1 DEF Installs, IInv
      <4>3. call[j].args.out # out
        BY <4>1, <4>2, <1>2, ConstantsAssumption
      <4> QED
        BY <4>1, <4>2, <4>3, <1>2
    <3> QED
      BY <3>1, <3>2
  <2> QED
    BY <2>1, <2>2 DEF Installs
<1>13. OneReceipt'
  BY <1>1, <1>2, <1>6, <1>8 DEF OneReceipt, IInv
<1>14. ReceiptAccounted'
  <2>1. ASSUME NEW o \in Out, receipts'[o] # None
        PROVE  /\ row[receipts'[o].nonce] # None
               /\ row[receipts'[o].nonce].bundle = receipts'[o].bundle
               /\ row[receipts'[o].nonce].challenge = receipts'[o].pack.challenge
               /\ ChallengeNonce[receipts'[o].pack.challenge] = receipts'[o].nonce
    <3>1. CASE o = out
      BY <3>1, <1>1, <1>2, <1>5
    <3>2. CASE o # out
      BY <3>2, <2>1, <1>2 DEF ReceiptAccounted, IInv
    <3> QED
      BY <3>1, <3>2
  <2> QED
    BY <2>1, <1>2 DEF ReceiptAccounted
<1>15. SignedHasReceipt'
  <2> SUFFICES ASSUME NEW m \in Nonce, row[m] # None, row[m].status = "signed"
               PROVE  \E o \in Out : /\ receipts'[o] = row[m].receipt
                                    /\ row[m].receipt.nonce = m
    BY <1>2 DEF SignedHasReceipt
  <2>1. PICK o \in Out : receipts[o] = row[m].receipt /\ row[m].receipt.nonce = m
    BY DEF SignedHasReceipt, IInv
  <2>2. row[m].receipt # None
    BY DEF IInv, SignedNamesReceipt
  <2> QED
    BY <2>1, <2>2, <1>2
<1>16. ChallengesDiffer' /\ SignedNamesReceipt'
  BY <1>2 DEF ChallengesDiffer, SignedNamesReceipt, IInv
<1> QED
  BY <1>9, <1>10, <1>11, <1>12, <1>13, <1>14, <1>15, <1>16 DEF IInv

(* Marking: the row was the call's own and names the receipt it installed.   *)
LEMMA MarkStep ==
  ASSUME IInv, TypeOK', NEW i \in Issuer, MarkSigned(i)
  PROVE  IInv'
<1> DEFINE n == NonceOfCall(i)
           r == ReceiptOfCall(i)
<1>1. /\ n \in Nonce /\ call[i].pc = "mark" /\ call[i].pc \in Burning
      /\ r \in Receipt /\ r # None /\ r.nonce = n
      /\ call[i].args.out \in Out
  BY CallTyped, ConstantsAssumption
     DEF IInv, MarkSigned, At, Burning, ReceiptOfCall, Args
<1>2. /\ row[n] = ExactRow(i) /\ ExactRow(i) # None
      /\ row'[n] = [ExactRow(i) EXCEPT !.status = "signed", !.receipt = r]
      /\ \A m \in Nonce : m # n => row'[m] = row[m]
      /\ UNCHANGED <<receipts, signings>>
  BY <1>1, CallTyped, ConstantsAssumption DEF IInv, TypeOK, MarkSigned
<1>3. /\ row'[n].challenge = row[n].challenge
      /\ row'[n].bundle = row[n].bundle
      /\ row'[n].status = "signed" /\ row'[n].receipt = r
  BY <1>2 DEF ExactRow
<1>4. row'[n] # None /\ row[n] # None
  <2>1. ExactRow(i) \in Row
    BY <1>1, CallTyped DEF IInv
  <2>2. [ExactRow(i) EXCEPT !.status = "signed", !.receipt = r] \in Row
    BY <1>1, <2>1 DEF Row
  <2> QED
    BY <1>2, <2>2, ConstantsAssumption
<1>5. call'[i] = Idle /\ \A j \in Issuer : j # i => call'[j] = call[j]
  BY Frame DEF IInv, MarkSigned
<1>6. \A j \in Issuer : call'[j].pc \in {"reserve"} \cup Burning =>
        /\ j # i /\ call'[j] = call[j]
        /\ NonceOfCall(j)' = NonceOfCall(j) /\ ExactRow(j)' = ExactRow(j)
        /\ ReceiptOfCall(j)' = ReceiptOfCall(j)
        /\ Supported(j)' = Supported(j)
  BY <1>5 DEF NonceOfCall, ExactRow, ReceiptOfCall, Supported, Burning, Idle
<1>7. \A j \in Issuer : j # i /\ call[j].pc \in Burning =>
        NonceOfCall(j) # n /\ NonceOfCall(j) \in Nonce
  BY <1>1, CallTyped DEF IInv, Owns
<1> HIDE DEF n, r
<1>8. Owns'
  BY <1>2, <1>6, <1>7 DEF Owns, IInv
<1>9. ChallengesDiffer'
  <2>1. \A m \in Nonce : /\ row'[m] # None <=> row[m] # None
                        /\ row'[m].challenge = row[m].challenge
    BY <1>2, <1>3, <1>4
  <2> QED
    BY <2>1 DEF ChallengesDiffer, IInv
<1>10. SignedOnce'
  BY <1>2, <1>4, <1>6 DEF SignedOnce, OneSignature, IInv, Burning
<1>11. Appraised'
  BY <1>6 DEF Appraised, IInv, Burning
<1>12. Installs'
  BY <1>2, <1>6 DEF Installs, IInv, Burning
<1>13. OneReceipt'
  BY <1>2 DEF OneReceipt, IInv
<1>14. ReceiptAccounted'
  <2>1. \A m \in Nonce : /\ row'[m] # None <=> row[m] # None
                        /\ row'[m].challenge = row[m].challenge
                        /\ row'[m].bundle = row[m].bundle
    BY <1>2, <1>3, <1>4
  <2>2. \A o \in Out : receipts[o] # None => receipts[o].nonce \in Nonce
    BY DEF IInv, TypeOK, Receipt
  <2> QED
    BY <1>2, <2>1, <2>2 DEF ReceiptAccounted, IInv
<1>15. SignedHasReceipt'
  <2>1. receipts[call[i].args.out] = r
    BY <1>1 DEF Installs, IInv, r
  <2>2. ASSUME NEW m \in Nonce, row'[m] # None, row'[m].status = "signed"
        PROVE  \E o \in Out : /\ receipts[o] = row'[m].receipt
                             /\ row'[m].receipt.nonce = m
    <3>1. CASE m = n
      BY <1>1, <1>3, <2>1, <3>1
    <3>2. CASE m # n
      BY <1>2, <2>2, <3>2 DEF SignedHasReceipt, IInv
    <3> QED
      BY <3>1, <3>2
  <2> QED
    BY <1>2, <2>2 DEF SignedHasReceipt
<1>16. SignedNamesReceipt'
  BY <1>1, <1>2, <1>3 DEF SignedNamesReceipt, IInv
<1> QED
  BY <1>8, <1>9, <1>10, <1>11, <1>12, <1>13, <1>14, <1>15, <1>16 DEF IInv

LEMMA InitInv == Init => IInv
<1> SUFFICES ASSUME Init PROVE IInv
  OBVIOUS
<1>1. \A i \in Issuer : call[i].pc = "idle"
  BY DEF Init, Idle
<1>2. TypeOK
  BY DEF Init, TypeOK, Call
<1>3. Owns /\ Appraised /\ Installs
  BY <1>1 DEF Owns, Appraised, Installs, Burning
<1>4. /\ ChallengesDiffer /\ SignedNamesReceipt /\ OneReceipt
      /\ ReceiptAccounted /\ SignedHasReceipt
  BY DEF Init, ChallengesDiffer, SignedNamesReceipt, OneReceipt,
         ReceiptAccounted, SignedHasReceipt
<1>5. SignedOnce
  BY <1>1 DEF Init, SignedOnce, OneSignature
<1> QED
  BY <1>2, <1>3, <1>4, <1>5 DEF IInv

LEMMA StepInv == IInv /\ [Next]_vars => IInv'
<1> SUFFICES ASSUME IInv, [Next]_vars PROVE IInv'
  OBVIOUS
<1>1. TypeOK /\ TypeOK'
  BY TypeInductive DEF IInv
<1>2. ASSUME NEW i \in Issuer, NEW c, Becomes(i, c), c.pc \notin Burning,
             UNCHANGED <<row, receipts, signings>>
      PROVE  IInv'
  <2>1. call'[i].pc \notin Burning /\ \A j \in Issuer : j # i => call'[j] = call[j]
    BY <1>1, <1>2, Frame
  <2> QED
    BY <1>1, <1>2, <2>1, QuietStep
       DEF NonceOfCall, ExactRow, ReceiptOfCall, Supported, IInv, Appraised
<1>3. ASSUME NEW i \in Issuer, Begin(i) \/ Snapshot(i) \/ Fail(i)
      PROVE  IInv'
  BY <1>2, <1>3 DEF Begin, Snapshot, Fail, Burning, Idle
<1>4. ASSUME NEW i \in Issuer, Appraise(i)
      PROVE  IInv'
  <2>1. /\ call[i].pc = "appraise" /\ call'[i].pc = "sign"
        /\ call'[i].args = call[i].args /\ call'[i].challenge = call[i].challenge
        /\ \A j \in Issuer : j # i => call'[j] = call[j]
    BY <1>1, <1>4, Moved DEF Appraise, At, Burning
  <2>2. Supported(i)'
    BY <1>4, <2>1 DEF Appraise, Supported, NonceOfCall
  <2>3. UNCHANGED <<row, receipts, signings>>
    BY <1>4 DEF Appraise
  <2> QED
    BY <1>1, <2>1, <2>2, <2>3, QuietStep
       DEF NonceOfCall, ExactRow, ReceiptOfCall, Supported, IInv, Appraised, Burning
<1>5. ASSUME NEW p \in Path, NEW c \in Challenge, StoreChallenge(p, c)
      PROVE  IInv'
  BY <1>1, <1>5, QuietStep
     DEF StoreChallenge, NonceOfCall, ExactRow, ReceiptOfCall, Supported, IInv,
         Appraised
<1>6. CASE UNCHANGED vars
  BY <1>1, <1>6, QuietStep
     DEF vars, NonceOfCall, ExactRow, ReceiptOfCall, Supported, IInv, Appraised
<1> QED
  BY <1>1, <1>3, <1>4, <1>5, <1>6, ReserveStep, SignStep, InstallStep, MarkStep
     DEF Next, Step

LEMMA Invariant == Spec => []IInv
BY InitInv, StepInv, PTL DEF Spec

(* At most one signature for a nonce, ever.                                  *)
THEOREM SignedAtMostOnce == Spec => []OneSignature
<1>1. IInv => OneSignature
  BY DEF IInv, SignedOnce
<1> QED
  BY <1>1, Invariant, PTL

(* At most one receipt for a nonce and for a challenge, at whatever paths    *)
(* and by whatever issuers.                                                  *)
THEOREM ReceiptsUnique == Spec => []OneReceipt
<1>1. IInv => OneReceipt
  BY DEF IInv
<1> QED
  BY <1>1, Invariant, PTL

(* Every receipt answers the challenge that its nonce burned.                *)
THEOREM ReceiptsAccounted == Spec => []ReceiptAccounted
<1>1. IInv => ReceiptAccounted
  BY DEF IInv
<1> QED
  BY <1>1, Invariant, PTL

(* A row marked signed has its receipt installed.                            *)
THEOREM SignedRowsHaveReceipts == Spec => []SignedHasReceipt
<1>1. IInv => SignedHasReceipt
  BY DEF IInv
<1> QED
  BY <1>1, Invariant, PTL

-----------------------------------------------------------------------------
(* What each kind of step does to the rows, the receipts and the calls that  *)
(* own a row: the facts both action properties rest on.                      *)
LEMMA StepEffect ==
  ASSUME IInv, [Next]_vars
  PROVE  \/ /\ UNCHANGED receipts
            /\ \A n \in Nonce : row'[n] # None <=> row[n] # None
            /\ \A i \in Issuer : call'[i].pc \in Burning =>
                 call[i].pc \in Burning /\ NonceOfCall(i)' = NonceOfCall(i)
         \/ \E i \in Issuer : Reserve(i) \/ Install(i)
<1>1. TypeOK
  BY DEF IInv
<1>2. ASSUME NEW i \in Issuer, NEW c, Becomes(i, c), c.pc \notin Burning
      PROVE  \A j \in Issuer : call'[j].pc \in Burning =>
               call[j].pc \in Burning /\ NonceOfCall(j)' = NonceOfCall(j)
  BY <1>1, <1>2, Frame DEF NonceOfCall
<1>3. ASSUME NEW i \in Issuer, NEW q, Continue(i, q), call[i].pc \in Burning
      PROVE  \A j \in Issuer : call'[j].pc \in Burning =>
               call[j].pc \in Burning /\ NonceOfCall(j)' = NonceOfCall(j)
  BY <1>1, <1>3, Moved DEF NonceOfCall
<1>4. ASSUME NEW i \in Issuer, Begin(i) \/ Snapshot(i) \/ Fail(i)
      PROVE  UNCHANGED <<row, receipts>>
             /\ \A j \in Issuer : call'[j].pc \in Burning =>
                  call[j].pc \in Burning /\ NonceOfCall(j)' = NonceOfCall(j)
  BY <1>2, <1>4 DEF Begin, Snapshot, Fail, Burning, Idle
<1>5. ASSUME NEW i \in Issuer, Appraise(i)
      PROVE  UNCHANGED <<row, receipts>>
             /\ \A j \in Issuer : call'[j].pc \in Burning =>
                  call[j].pc \in Burning /\ NonceOfCall(j)' = NonceOfCall(j)
  BY <1>3, <1>5 DEF Appraise, At, Burning
<1>6. ASSUME NEW i \in Issuer, Sign(i)
      PROVE  UNCHANGED <<row, receipts>>
             /\ \A j \in Issuer : call'[j].pc \in Burning =>
                  call[j].pc \in Burning /\ NonceOfCall(j)' = NonceOfCall(j)
  <2>1. CASE Continue(i, "install")
    BY <1>3, <1>6, <2>1 DEF Sign, At, Burning
  <2>2. CASE Becomes(i, Idle)
    BY <1>2, <1>6, <2>2 DEF Sign, Burning, Idle
  <2> QED
    BY <1>6, <2>1, <2>2 DEF Sign
<1>7. ASSUME NEW i \in Issuer, MarkSigned(i)
      PROVE  /\ UNCHANGED receipts
             /\ \A n \in Nonce : row'[n] # None <=> row[n] # None
             /\ \A j \in Issuer : call'[j].pc \in Burning =>
                  call[j].pc \in Burning /\ NonceOfCall(j)' = NonceOfCall(j)
  <2>1. NonceOfCall(i) \in Nonce /\ ReceiptOfCall(i) \in Receipt /\ ExactRow(i) \in Row
    BY <1>1, <1>7, CallTyped DEF MarkSigned, At, Burning
  <2>2. [ExactRow(i) EXCEPT !.status = "signed", !.receipt = ReceiptOfCall(i)] \in Row
    BY <2>1 DEF Row
  <2>3. \A n \in Nonce : row'[n] # None <=> row[n] # None
    BY <1>1, <1>7, <2>1, <2>2, ConstantsAssumption DEF MarkSigned, TypeOK
  <2> QED
    BY <1>2, <1>7, <2>3 DEF MarkSigned, Burning, Idle
<1>8. ASSUME UNCHANGED <<row, receipts, call>>
      PROVE  UNCHANGED <<row, receipts>>
             /\ \A j \in Issuer : call'[j].pc \in Burning =>
                  call[j].pc \in Burning /\ NonceOfCall(j)' = NonceOfCall(j)
  BY <1>8 DEF NonceOfCall
<1>9. ASSUME NEW p \in Path, NEW c \in Challenge, StoreChallenge(p, c)
      PROVE  UNCHANGED <<row, receipts, call>>
  BY <1>9 DEF StoreChallenge
<1>10. CASE UNCHANGED vars
  BY <1>8, <1>10 DEF vars
<1> QED
  BY <1>4, <1>5, <1>6, <1>7, <1>8, <1>9, <1>10 DEF Next, Step

(* A burned challenge whose call ended without a receipt never gets one.     *)
THEOREM FailureIsFinal == Spec => FailureRemainsSpent
<1>1. ASSUME IInv, [Next]_vars, NEW n \in Nonce, Stranded(n)
      PROVE  Stranded(n)'
  <2>1. CASE /\ UNCHANGED receipts
             /\ \A m \in Nonce : row'[m] # None <=> row[m] # None
             /\ \A i \in Issuer : call'[i].pc \in Burning =>
                  call[i].pc \in Burning /\ NonceOfCall(i)' = NonceOfCall(i)
    BY <1>1, <2>1 DEF Stranded
  <2>2. ASSUME NEW i \in Issuer, Reserve(i)
        PROVE  Stranded(n)'
    <3>1. /\ call'[i].args = call[i].args
          /\ \A j \in Issuer : j # i => call'[j] = call[j]
      BY <1>1, <2>2, Moved DEF Reserve, At, IInv
    <3>2. NonceOfCall(i) # n
      BY <1>1, <2>2 DEF Reserve, Stranded
    <3>3. row'[n] = row[n] /\ UNCHANGED receipts
      BY <1>1, <2>2, <3>2 DEF Reserve, IInv, TypeOK
    <3> QED
      BY <1>1, <3>1, <3>2, <3>3 DEF Stranded, NonceOfCall
  <2>3. ASSUME NEW i \in Issuer, Install(i)
        PROVE  Stranded(n)'
    <3>1. /\ call[i].pc \in Burning /\ call'[i].args = call[i].args
          /\ \A j \in Issuer : j # i => call'[j] = call[j]
      BY <1>1, <2>3, Moved DEF Install, At, Burning, IInv
    <3>2. NonceOfCall(i) # n /\ ReceiptOfCall(i).nonce = NonceOfCall(i)
      BY <1>1, <3>1 DEF Stranded, ReceiptOfCall
    <3>3. /\ UNCHANGED row
          /\ \A o \in Out : receipts'[o] = receipts[o] \/ receipts'[o] = ReceiptOfCall(i)
      BY <1>1, <2>3 DEF Install, IInv, TypeOK
    <3> QED
      BY <1>1, <3>1, <3>2, <3>3 DEF Stranded, NonceOfCall
  <2> QED
    BY <1>1, <2>1, <2>2, <2>3, StepEffect
<1>2. IInv /\ [Next]_vars => [\A n \in Nonce : Stranded(n) => Stranded(n)']_vars
  BY <1>1
<1> QED
  BY <1>2, Invariant, PTL DEF Spec, FailureRemainsSpent

-----------------------------------------------------------------------------
(* The refinement mapping is well defined: receipts are unique.              *)
LEMMA IssuedIs ==
  ASSUME OneReceipt, NEW o \in Out, receipts[o] # None
  PROVE  IssuedFor(receipts[o].nonce) = receipts[o]
<1> DEFINE n == receipts[o].nonce
           paths == {p \in Out : receipts[p] # None /\ receipts[p].nonce = n}
<1>1. \A p \in paths : p = o
  BY DEF OneReceipt
<1>2. o \in paths
  OBVIOUS
<1>3. (CHOOSE p \in paths : TRUE) = o
  BY <1>1, <1>2
<1> QED
  BY <1>2, <1>3 DEF IssuedFor

LEMMA NotIssued ==
  ASSUME NEW n, \A o \in Out : receipts[o] # None => receipts[o].nonce # n
  PROVE  IssuedFor(n) = None
BY DEF IssuedFor

(* Installing a receipt changes the receipt of its own nonce only.           *)
LEMMA InstallIssues ==
  ASSUME IInv, IInv', NEW i \in Issuer, Install(i),
         NEW n \in Nonce, n = NonceOfCall(i)
  PROVE  /\ IssuedFor(n) = None
         /\ IssuedFor(n)' = ReceiptOfCall(i)
         /\ \A m \in Nonce : m # n => IssuedFor(m)' = IssuedFor(m)
<1> DEFINE out == call[i].args.out
           r == ReceiptOfCall(i)
<1>1. /\ call[i].pc = "install" /\ out \in Out /\ r \in Receipt
      /\ r # None /\ r.nonce = n
  BY CallTyped, ConstantsAssumption
     DEF IInv, Install, At, Burning, Args, ReceiptOfCall
<1>2. /\ receipts[out] = None /\ receipts'[out] = r
      /\ \A o \in Out : o # out => receipts'[o] = receipts[o]
  BY <1>1 DEF IInv, TypeOK, Install
<1>3. IssuedFor(n) = None
  <2>1. \A o \in Out : receipts[o] # None => receipts[o].nonce # n
    BY <1>1 DEF IInv, Installs
  <2> QED
    BY <2>1, NotIssued
<1>4. IssuedFor(n)' = r
  <2> DEFINE after == {p \in Out : receipts'[p] # None /\ receipts'[p].nonce = n}
  <2>1. out \in after /\ \A p \in after : p = out
    BY <1>1, <1>2 DEF IInv, OneReceipt
  <2>2. (CHOOSE p \in after : TRUE) = out
    BY <2>1
  <2>3. IssuedFor(n)' = IF after = {} THEN None ELSE receipts'[CHOOSE p \in after : TRUE]
    BY DEF IssuedFor
  <2> QED
    BY <1>2, <2>1, <2>2, <2>3
<1>5. ASSUME NEW m \in Nonce, m # n
      PROVE  IssuedFor(m)' = IssuedFor(m)
  <2> DEFINE before == {o \in Out : receipts[o] # None /\ receipts[o].nonce = m}
             after == {o \in Out : receipts'[o] # None /\ receipts'[o].nonce = m}
  <2>1. after = before /\ \A o \in before : o # out
    BY <1>1, <1>2, <1>5
  <2>2. IssuedFor(m) = IF before = {} THEN None ELSE receipts[CHOOSE o \in before : TRUE]
    BY DEF IssuedFor
  <2>3. IssuedFor(m)' = IF after = {} THEN None ELSE receipts'[CHOOSE o \in after : TRUE]
    BY DEF IssuedFor
  <2>4. CASE before = {}
    BY <2>1, <2>2, <2>3, <2>4
  <2>5. CASE before # {}
    <3>1. (CHOOSE o \in before : TRUE) \in before
      BY <2>5
    <3> QED
      BY <1>2, <2>1, <2>2, <2>3, <2>5, <3>1
  <2> QED
    BY <2>4, <2>5
<1> QED
  BY <1>3, <1>4, <1>5

(* The issuer implements one-time challenges.                                *)
THEOREM Refinement == Spec => OneTimeSpec
<1>1. Init => Abstract!Init
  <2> SUFFICES ASSUME Init PROVE Abstract!Init
    OBVIOUS
  <2>1. \A n \in Nonce : IssuedFor(n) = None
    BY NotIssued DEF Init
  <2> QED
    BY <2>1 DEF Init, Abstract!Init
<1>2. ASSUME IInv, IInv', [Next]_vars
      PROVE  [Abstract!Next]_<<{n \in Nonce : row[n] # None},
                               [n \in Nonce |-> IssuedFor(n)]>>
  <2> DEFINE burned == {n \in Nonce : row[n] # None}
             issued == [n \in Nonce |-> IssuedFor(n)]
  <2>1. CASE /\ UNCHANGED receipts
             /\ \A n \in Nonce : row'[n] # None <=> row[n] # None
    <3>1. burned' = burned
      BY <2>1
    <3>2. issued' = issued
      BY <2>1 DEF IssuedFor
    <3> QED
      BY <3>1, <3>2
  <2>2. ASSUME NEW i \in Issuer, Reserve(i)
        PROVE  Abstract!Next
    <3>1. PICK n \in Nonce : n = NonceOfCall(i)
      BY <1>2, <2>2, CallTyped DEF Reserve, At, IInv
    <3>2. /\ ExactRow(i) # None /\ row[n] = None
          /\ row' = [row EXCEPT ![n] = ExactRow(i)] /\ UNCHANGED receipts
      BY <1>2, <2>2, <3>1, CallTyped, ConstantsAssumption
         DEF Reserve, At, IInv, ExactRow
    <3>3. n \notin burned /\ burned' = burned \cup {n}
      BY <1>2, <3>2 DEF IInv, TypeOK
    <3>4. issued' = issued
      BY <3>2 DEF IssuedFor
    <3> QED
      BY <3>3, <3>4 DEF Abstract!Next, Abstract!Burn
  <2>3. ASSUME NEW i \in Issuer, Install(i)
        PROVE  Abstract!Next
    <3>1. PICK n \in Nonce : n = NonceOfCall(i)
      BY <1>2, <2>3, CallTyped DEF Install, At, Burning, IInv
    <3>2. /\ ReceiptOfCall(i) \in Receipt /\ UNCHANGED row
          /\ row[n] = ExactRow(i) /\ ExactRow(i) # None
      BY <1>2, <2>3, <3>1, CallTyped, ConstantsAssumption
         DEF Install, At, Burning, IInv, Owns
    <3>3. n \in burned /\ burned' = burned
      BY <3>2
    <3>4. /\ IssuedFor(n) = None
          /\ IssuedFor(n)' = ReceiptOfCall(i)
          /\ \A m \in Nonce : m # n => IssuedFor(m)' = IssuedFor(m)
      BY <1>2, <2>3, <3>1, InstallIssues
    <3>5. issued[n] = None /\ issued' = [issued EXCEPT ![n] = ReceiptOfCall(i)]
      BY <3>4
    <3>6. Abstract!Issue(n, ReceiptOfCall(i))
      BY <3>3, <3>5 DEF Abstract!Issue
    <3> QED
      BY <3>2, <3>6 DEF Abstract!Next
  <2> QED
    BY <1>2, <2>1, <2>2, <2>3, StepEffect
<1> QED
  BY <1>1, <1>2, Invariant, PTL DEF Spec, OneTimeSpec, Abstract!Spec
=============================================================================
