\* Two interchangeable operators seal, prune and finalize two shards, the last
\* one clamped, while one worker with a faulty machine runs the units and runs
\* pruned ones again: two seals of a shard may both find it unsealed.
SPECIFICATION Spec
CONSTANTS
    BlockCount = 3
    BlocksPerUnit = 1
    UnitsPerShard = 2
    Workers = {w1}
    Operators = {o1, o2}
    Runner <- MCFaulty
    CheckpointBlocks = 1
    LaunchArgs <- MCLaunchAll
    Supervised = {}
    DirectUnits = {}
    BeginsAt <- MCBeginsAt
    MaxFaults = 0
SYMMETRY MCOperators
INVARIANTS TypeOK CampaignSound CampaignLeaves ShardRootRecomputable
PROPERTIES LedgerSpec
