---------------------------- MODULE ReceiptIssuer ----------------------------
(* tools/trusted_compute_receipt.py issue: concurrent issuer processes over  *)
(* one replay database and a directory of receipts. A call snapshots the     *)
(* retained challenge, burns it, has the evidence appraised, obtains a       *)
(* signature, installs the receipt and marks the burned row signed. A call   *)
(* may fail or be killed between any two of these steps.                     *)
EXTENDS Naturals

CONSTANTS
  Issuer,           \* issuer processes; each can run one call after another
  Nonce,            \* start challenges
  Bundle,           \* run bundles; a bundle is its wire statement
  Challenge,        \* contents a retained-challenge file can have
  Path,             \* names of retained-challenge files
  Out,              \* receipt output paths
  NonceOf,          \* the nonce claimed by a bundle
  Invocations,      \* the command lines that are run
  ChallengeNonce,   \* the nonce stated in a challenge
  None

VARIABLES
  retained,   \* retained[p]: content of the challenge file at path p
  row,        \* row[n]: the replay database's row for nonce n, or None
  receipts,   \* receipts[o]: the receipt installed at output path o, or None
  signings,   \* signings[n]: signatures the signer has produced over nonce n
  call        \* call[i]: local state of issuer i

vars == <<retained, row, receipts, signings, call>>

(* Evidence collected on the machine, for one challenge and one bundle.      *)
Pack == [challenge : Challenge, bundle : Bundle]

Args == [bundle : Bundle, path : Path, pack : Pack, out : Out]

(* A receipt binds the claim and wire statement of its bundle, the start     *)
(* challenge, and the hashes of the evidence that was appraised.             *)
Receipt == [bundle : Bundle, nonce : Nonce, pack : Pack]

Row == [challenge : Challenge, bundle : Bundle,
        status : {"reserved", "signed"}, receipt : Receipt \cup {None}]

ASSUME ConstantsAssumption ==
  /\ NonceOf \in [Bundle -> Nonce]
  /\ ChallengeNonce \in [Challenge -> Nonce]
  /\ Invocations \subseteq Args
  /\ None \notin Receipt
  /\ None \notin Row

Idle == [pc |-> "idle"]
Burning == {"appraise", "sign", "install", "mark"}

Call == {Idle}
        \cup [pc : {"snapshot"}, args : Args]
        \cup [pc : {"reserve"} \cup Burning, args : Args, challenge : Challenge]

Init == /\ retained \in [Path -> Challenge]
        /\ row = [n \in Nonce |-> None]
        /\ receipts = [o \in Out |-> None]
        /\ signings = [n \in Nonce |-> 0]
        /\ call = [i \in Issuer |-> Idle]

Becomes(i, c) == call' = [call EXCEPT ![i] = c]
Continue(i, pc) == Becomes(i, [call[i] EXCEPT !.pc = pc])
At(i, pc) == call[i].pc = pc

(* The claim's nonce and the receipt of the call that issuer i is running.   *)
NonceOfCall(i) == NonceOf[call[i].args.bundle]
ReceiptOfCall(i) == [bundle |-> call[i].args.bundle,
                     nonce  |-> NonceOfCall(i),
                     pack   |-> call[i].args.pack]

(* Some row already has this challenge: the table's UNIQUE column.           *)
ChallengeSpent(c) == \E n \in Nonce : row[n] # None /\ row[n].challenge = c

(* The relying party stores another challenge under a name it has used.      *)
StoreChallenge(p, c) == /\ retained' = [retained EXCEPT ![p] = c]
                        /\ UNCHANGED <<row, receipts, signings, call>>

Begin(i) == /\ At(i, "idle")
            /\ \E a \in Invocations : Becomes(i, [pc |-> "snapshot", args |-> a])
            /\ UNCHANGED <<retained, row, receipts, signings>>

(* The challenge file is copied to a private directory; from here on only    *)
(* the copy is read.                                                         *)
Snapshot(i) == /\ At(i, "snapshot")
               /\ Becomes(i, [pc |-> "reserve", args |-> call[i].args,
                              challenge |-> retained[call[i].args.path]])
               /\ UNCHANGED <<retained, row, receipts, signings>>

(* Mutant: a row left reserved by an earlier call is taken over by a retry.  *)
ReserveTakesOver(i) ==
  /\ At(i, "reserve")
  /\ row[NonceOfCall(i)] # None => row[NonceOfCall(i)].status = "reserved"
  /\ row' = [row EXCEPT ![NonceOfCall(i)] =
               [challenge |-> call[i].challenge, bundle |-> call[i].args.bundle,
                status |-> "reserved", receipt |-> None]]
  /\ Continue(i, "appraise")
  /\ UNCHANGED <<retained, receipts, signings>>

(* One immediate transaction: the nonce is the table's primary key and the   *)
(* challenge is unique.                                                      *)
Reserve(i) ==
  /\ At(i, "reserve")
  /\ row[NonceOfCall(i)] = None
  /\ ~ChallengeSpent(call[i].challenge)
  /\ row' = [row EXCEPT ![NonceOfCall(i)] =
               [challenge |-> call[i].challenge, bundle |-> call[i].args.bundle,
                status |-> "reserved", receipt |-> None]]
  /\ Continue(i, "appraise")
  /\ UNCHANGED <<retained, receipts, signings>>

(* Mutant: the appraisal reads the retained path instead of the copy.        *)
SupportedLive(i) ==
  /\ ChallengeNonce[retained[call[i].args.path]] = NonceOfCall(i)
  /\ call[i].args.pack = [challenge |-> retained[call[i].args.path],
                          bundle |-> call[i].args.bundle]

(* The evidence verifier affirms only the challenge in the copied file, with *)
(* the nonce of the claim, and a result that is bound to it.                 *)
Supported(i) ==
  /\ ChallengeNonce[call[i].challenge] = NonceOfCall(i)
  /\ call[i].args.pack = [challenge |-> call[i].challenge,
                          bundle |-> call[i].args.bundle]

Appraise(i) == /\ At(i, "appraise")
               /\ Supported(i)
               /\ Continue(i, "sign")
               /\ UNCHANGED <<retained, row, receipts, signings>>

(* The signer answers. It may also have signed when its answer is lost or    *)
(* comes after the timeout: then the call fails.                             *)
Sign(i) == /\ At(i, "sign")
           /\ signings' = [signings EXCEPT ![NonceOfCall(i)] = @ + 1]
           /\ Continue(i, "install") \/ Becomes(i, Idle)
           /\ UNCHANGED <<retained, row, receipts>>

(* Mutant: the receipt is renamed over whatever the path holds.              *)
InstallReplaces(i) ==
  /\ At(i, "install")
  /\ receipts' = [receipts EXCEPT ![call[i].args.out] = ReceiptOfCall(i)]
  /\ Continue(i, "mark")
  /\ UNCHANGED <<retained, row, signings>>

(* os.link fails on an existing name.                                        *)
Install(i) == /\ At(i, "install")
              /\ receipts[call[i].args.out] = None
              /\ receipts' = [receipts EXCEPT ![call[i].args.out] = ReceiptOfCall(i)]
              /\ Continue(i, "mark")
              /\ UNCHANGED <<retained, row, signings>>

(* The row this call may update: the exact one it reserved.                  *)
ExactRow(i) == [challenge |-> call[i].challenge, bundle |-> call[i].args.bundle,
                status |-> "reserved", receipt |-> None]

(* Mutant: the row stores the receipt's path instead of its digest.          *)
MarkSignedPath(i) == /\ At(i, "mark")
                     /\ row[NonceOfCall(i)] = ExactRow(i)
                     /\ row' = [row EXCEPT ![NonceOfCall(i)] =
                                  [@ EXCEPT !.status = "signed",
                                            !.receipt = call[i].args.out]]
                     /\ Becomes(i, Idle)
                     /\ UNCHANGED <<retained, receipts, signings>>

MarkSigned(i) == /\ At(i, "mark")
                 /\ row[NonceOfCall(i)] = ExactRow(i)
                 /\ row' = [row EXCEPT ![NonceOfCall(i)] =
                              [@ EXCEPT !.status = "signed",
                                        !.receipt = ReceiptOfCall(i)]]
                 /\ Becomes(i, Idle)
                 /\ UNCHANGED <<retained, receipts, signings>>

(* A call ends without its next step: a kill, a challenge already spent, a   *)
(* rejected appraisal, a failing signer, an occupied output path, a database *)
(* that cannot be locked. Nothing that was written is undone.                *)
Fail(i) == /\ ~At(i, "idle")
           /\ Becomes(i, Idle)
           /\ UNCHANGED <<retained, row, receipts, signings>>

Step(i) == \/ Begin(i) \/ Snapshot(i) \/ Reserve(i) \/ Appraise(i)
           \/ Sign(i) \/ Install(i) \/ MarkSigned(i) \/ Fail(i)

Next == \/ \E i \in Issuer : Step(i)
        \/ \E p \in Path, c \in Challenge : StoreChallenge(p, c)

Spec == Init /\ [][Next]_vars

-----------------------------------------------------------------------------
(* The values of every variable: rows, receipts and calls are well formed.   *)
TypeOK == /\ retained \in [Path -> Challenge]
          /\ row \in [Nonce -> Row \cup {None}]
          /\ receipts \in [Out -> Receipt \cup {None}]
          /\ signings \in [Nonce -> Nat]
          /\ call \in [Issuer -> Call]

(* A challenge yields one signature, whatever issuers run at the same time   *)
(* and wherever they are killed (_reserve_challenge burns it first).         *)
OneSignature == \A n \in Nonce : signings[n] <= 1

(* Two output paths never hold receipts for the same nonce or the same       *)
(* challenge file.                                                           *)
OneReceipt ==
  \A o, p \in Out :
    /\ o # p
    /\ receipts[o] # None /\ receipts[p] # None
    => /\ receipts[o].nonce # receipts[p].nonce
       /\ receipts[o].pack.challenge # receipts[p].pack.challenge

(* What was burned is what was appraised: an installed receipt has a row     *)
(* with its bundle and with the challenge its evidence answers, though the   *)
(* challenge file may have been replaced while the call ran.                 *)
ReceiptAccounted ==
  \A o \in Out :
    receipts[o] # None =>
      LET r == receipts[o] IN
      /\ row[r.nonce] # None
      /\ row[r.nonce].bundle = r.bundle
      /\ row[r.nonce].challenge = r.pack.challenge
      /\ ChallengeNonce[r.pack.challenge] = r.nonce

(* A row marked signed names a receipt that is installed.                    *)
SignedHasReceipt ==
  \A n \in Nonce :
    row[n] # None /\ row[n].status = "signed" =>
      \E o \in Out : receipts[o] = row[n].receipt /\ row[n].receipt.nonce = n

(* No receipt for n and no call that could still install one.                *)
Stranded(n) == /\ row[n] # None
               /\ \A o \in Out : receipts[o] # None => receipts[o].nonce # n
               /\ \A i \in Issuer :
                    call[i].pc \in Burning => NonceOfCall(i) # n

(* A burned challenge whose call has ended without a receipt never gets one: *)
(* failure remains spent.                                                    *)
FailureRemainsSpent == [][\A n \in Nonce : Stranded(n) => Stranded(n)']_vars

(* The issuer implements one-time challenges.                                *)
IssuedFor(n) ==
  LET paths == {o \in Out : receipts[o] # None /\ receipts[o].nonce = n}
  IN  IF paths = {} THEN None ELSE receipts[CHOOSE o \in paths : TRUE]

Abstract == INSTANCE OneTimeChallenge
              WITH burned <- {n \in Nonce : row[n] # None},
                   issued <- [n \in Nonce |-> IssuedFor(n)]

(* Every step burns a fresh challenge, issues the one receipt of a burned    *)
(* challenge, or changes neither.                                            *)
OneTimeSpec == Abstract!Spec
=============================================================================
