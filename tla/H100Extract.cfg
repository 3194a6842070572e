\* Two calls on one machine: the document's refusal of a root that is there.
SPECIFICATION WorkerSpec
CONSTANTS
    Call = {c1, c2}
    Result = {x}
    MaxRebuilds = 0
    Torn = Torn
    None = None
INVARIANTS RootStays
CHECK_DEADLOCK FALSE
