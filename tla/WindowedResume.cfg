\* One worker on a machine that may miscount, `work` or `run-unit` with and
\* without --no-resume, through two faults: units of five blocks checkpointed
\* every two, and a clamped last unit.  An operator seals, prunes and finalizes
\* meanwhile, so units of sealed shards are run again with other outcomes.
SPECIFICATION Spec
CONSTANTS
    BlockCount = 8
    BlocksPerUnit = 5
    UnitsPerShard = 2
    Workers = {w1}
    Operators = {o1}
    Runner <- MCFaulty
    CheckpointBlocks = 2
    LaunchArgs <- MCLaunchPart
    Supervised = {}
    DirectUnits <- MCUnits
    BeginsAt <- MCBeginsAt
    MaxFaults = 2
INVARIANTS LossBound ReceiptSound
