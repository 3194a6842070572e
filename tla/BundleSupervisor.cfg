\* Two processes on a lane of two blocks with two bundles each; two workers
\* that may answer differently each time.
SPECIFICATION Spec
CONSTANTS
    Supervisor = {s1, s2}
    Worker = {v, w}
    BlockCount = 2
    FrameCount = 2
    Bundle = {x, y}
    Response = {fast, slow}
    None = None
INVARIANTS TypeOK BundlesAgree DirectoryResumes ReceiptIsDirectory
SYMMETRY Symmetry
CHECK_DEADLOCK FALSE
