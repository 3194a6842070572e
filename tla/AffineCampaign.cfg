\* Two processes on one campaign of two shards; the machine that runs shard 0
\* may miscount, and equal runs may differ in their timing.
SPECIFICATION FairSpec
CONSTANTS
    ShardCount = 2
    Caller = {c1, c2}
    Identity = {x, y}
    FullSource = {x}
    Report <- MCReport
    Guard = {0, 1, 2}
    Stamp <- MCStamp
    Workers = {1, 2}
    None = None
INVARIANTS TypeOK DirectoryVerifies RegisteredReplayed
PROPERTIES CommandsEnd LedgerSpec

CHECK_DEADLOCK FALSE
