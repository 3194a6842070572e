\* Two runs of one challenge, for the same job or for two, one of them with a
\* GPU gate; a register other software has used; one output directory.
SPECIFICATION Spec
CONSTANTS
    Run = {r1, r2}
    Challenge = {c1}
    Job = {cpu, gpu}
    Gated = {gpu}
    Outcome = {x, y}
    Out = {o1}
    None = None
INVARIANTS TypeOK TamperingShows UndisturbedAppraises NoLateQuote
CHECK_DEADLOCK FALSE
