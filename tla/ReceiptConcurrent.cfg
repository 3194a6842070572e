\* Two issuers and two output paths. Two run bundles share a nonce that two
\* challenge files state; a third bundle and challenge have their own.
CONSTANTS
  i1 = i1  i2 = i2  n1 = n1  n2 = n2  b1 = b1  b2 = b2  b3 = b3
  c1 = c1  c2 = c2  c3 = c3  o1 = o1  o2 = o2
  Issuer = {i1, i2}
  Nonce = {n1, n2}
  Bundle = {b1, b2, b3}
  Challenge = {c1, c2, c3}
  Path = {"retained"}
  Out = {o1, o2}
  NonceOf <- SharedNonce
  ChallengeNonce <- SharedNonceStated
  Invocations <- CommandLines
  None = None
SPECIFICATION Spec
SYMMETRY Symmetry
INVARIANTS TypeOK OneSignature ReceiptAccounted
PROPERTIES FailureRemainsSpent OneTimeSpec
