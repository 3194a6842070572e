\* One campaign with two calls on its machine, which may be lost once; two
\* results a measured run can have; kills and errors at every step.
SPECIFICATION Spec
CONSTANTS
    Call = {c1, c2}
    Result = {x, y}
    MaxRebuilds = 1
    Torn = Torn
    Made = Made
    None = None
INVARIANTS TypeOK NoBlindRetry ResultsAgree ReviewPairWhole EvidenceConsistent
PROPERTIES OrderedSpec
CHECK_DEADLOCK FALSE
