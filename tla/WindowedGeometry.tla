-------------------------- MODULE WindowedGeometry --------------------------
(***************************************************************************)
(* The immutable geometry of a Platt PT21 windowed schedule                *)
(* (tg_verifier/platt_windowed_scheduler.py): BlockCount logical blocks,   *)
(* cut into units of BlocksPerUnit blocks and shards of UnitsPerShard      *)
(* units, the last of each clamped.  Everything here is a function of the  *)
(* plan; nothing about a worker or an order of events enters it.           *)
(***************************************************************************)
EXTENDS Integers

CONSTANTS BlockCount, BlocksPerUnit, UnitsPerShard

\* create_schedule refuses any other geometry.
ASSUME GeometryAssumption ==
    /\ BlockCount \in Nat \ {0}
    /\ BlocksPerUnit \in Nat \ {0}
    /\ UnitsPerShard \in Nat \ {0}

UnitCount  == (BlockCount + BlocksPerUnit - 1) \div BlocksPerUnit
ShardCount == (UnitCount + UnitsPerShard - 1) \div UnitsPerShard

Blocks == 0 .. BlockCount - 1
Units  == 0 .. UnitCount - 1
Shards == 0 .. ShardCount - 1

Smaller(a, b) == IF a <= b THEN a ELSE b

\* unit_block_range: unit u owns the blocks FirstBlock(u) .. UpperBlock(u) - 1.
FirstBlock(u) == u * BlocksPerUnit
UpperBlock(u) == Smaller(FirstBlock(u) + BlocksPerUnit, BlockCount)
UnitLen(u)    == UpperBlock(u) - FirstBlock(u)

\* shard_unit_range: shard s owns the units FirstUnit(s) .. UpperUnit(s) - 1.
FirstUnit(s) == s * UnitsPerShard
UpperUnit(s) == Smaller(FirstUnit(s) + UnitsPerShard, UnitCount)
UnitsOf(s)   == FirstUnit(s) .. UpperUnit(s) - 1
ShardLen(s)  == UpperUnit(s) - FirstUnit(s)

ShardOf(u) == u \div UnitsPerShard

=============================================================================
