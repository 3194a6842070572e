\* One campaign, two results that a returned package may hold, kills and errors
\* at every step. No symmetry, liveness is checked. A campaign ends: no deadlock
\* check.
SPECIFICATION FairSpec
CONSTANTS
  Result = {r1, r2}
  Made = Made
  None = None
INVARIANTS TypeOK NoBlindRetry JournalLegal RecordsHold ResultsAgree
PROPERTIES OrderedSpec LockReleased
CHECK_DEADLOCK FALSE
