\* Two workers whose runs of one unit disagree.
SPECIFICATION Spec
CONSTANTS
    BlockCount = 1
    BlocksPerUnit = 1
    UnitsPerShard = 1
    Workers = {w1, w2}
    Operators = {}
    Runner <- MCFaulty
    CheckpointBlocks = 1
    LaunchArgs <- MCLaunchAll
    Supervised = {}
    DirectUnits = {}
    BeginsAt <- MCBeginsAt
    MaxFaults = 0
SYMMETRY MCWorkers
PROPERTIES ReceiptStable
