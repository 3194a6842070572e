\* Two interchangeable workers on machines that compute correctly: lease races,
\* duplicate runs and a crash, while one operator seals, prunes and finalizes.
\* Three blocks in units of two: the last unit is clamped.
SPECIFICATION Spec
CONSTANTS
    BlockCount = 3
    BlocksPerUnit = 2
    UnitsPerShard = 2
    Workers = {w1, w2}
    Operators = {o1}
    Runner <- MCDeterministic
    CheckpointBlocks = 1
    LaunchArgs <- MCLaunchAll
    Supervised = {}
    DirectUnits = {}
    BeginsAt <- MCBeginsAt
    MaxFaults = 1
SYMMETRY MCWorkers
PROPERTIES ReceiptStable
