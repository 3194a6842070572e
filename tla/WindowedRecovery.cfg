\* Two workers, one of which stays lost when it fails; the other is supervised
\* and scans every unit.
SPECIFICATION FairSpec
CONSTANTS
    BlockCount = 2
    BlocksPerUnit = 1
    UnitsPerShard = 1
    Workers = {w1, w2}
    Operators = {}
    Runner <- MCDeterministic
    CheckpointBlocks = 1
    LaunchArgs <- MCLaunchAll
    Supervised <- MCOneSupervised
    DirectUnits = {}
    BeginsAt <- MCBeginsAt
    MaxFaults = 1
PROPERTIES LostUnitsReturn
