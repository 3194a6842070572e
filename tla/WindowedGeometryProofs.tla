----------------------- MODULE WindowedGeometryProofs -----------------------
(***************************************************************************)
(* The fixed geometry of a schedule, for every plan: units tile the blocks *)
(* and shards tile the units, the clamped last ones included.              *)
(***************************************************************************)
EXTENDS WindowedGeometry, TLAPS

\* Division as create_schedule uses it: the least number of pieces of size k
\* that cover n.
LEMMA CeilingDivision ==
    ASSUME NEW n \in Nat \ {0}, NEW k \in Nat \ {0}
    PROVE  LET q == (n + k - 1) \div k
           IN  /\ q \in Nat \ {0}
               /\ (q - 1) * k < n
               /\ n <= q * k
<1> DEFINE m == n + k - 1
           q == m \div k
           r == m % k
<1>1. m \in Nat /\ m >= k
  OBVIOUS
<1>2. q \in Int /\ r \in 0 .. k - 1 /\ m = k * q + r
  BY <1>1
<1> HIDE DEF q, r
<1>3. q * k = k * q /\ (q - 1) * k = q * k - k
  BY <1>2
<1>4. q > 0
  <2>1. SUFFICES ASSUME q <= 0 PROVE FALSE
    BY <1>2
  <2>2. k * q <= 0
    BY <2>1, <1>2
  <2> QED
    BY <2>2, <1>1, <1>2
<1> QED
  BY <1>1, <1>2, <1>3, <1>4 DEF q

\* Integer division picks the piece of size k that holds n, and only that one.
LEMMA DivisionBounds ==
    ASSUME NEW n \in Nat, NEW k \in Nat \ {0}
    PROVE  /\ n \div k \in Nat
           /\ (n \div k) * k <= n
           /\ n < (n \div k) * k + k
<1> DEFINE q == n \div k
           r == n % k
<1>1. q \in Int /\ r \in 0 .. k - 1 /\ n = k * q + r
  OBVIOUS
<1> HIDE DEF q, r
<1>2. q * k = k * q
  BY <1>1
<1>3. q >= 0
  <2>1. SUFFICES ASSUME q <= -1 PROVE FALSE
    BY <1>1
  <2>2. k * q <= -k
    BY <2>1, <1>1
  <2> QED
    BY <2>2, <1>1
<1> QED
  BY <1>1, <1>2, <1>3 DEF q

LEMMA DivisionUnique ==
    ASSUME NEW n \in Nat, NEW k \in Nat \ {0}, NEW q \in Nat,
           q * k <= n, n < q * k + k
    PROVE  n \div k = q
<1> DEFINE p == n \div k
<1>1. p \in Nat /\ p * k <= n /\ n < p * k + k
  BY DivisionBounds
<1> HIDE DEF p
<1>2. ~(p < q)
  <2>1. SUFFICES ASSUME p + 1 <= q PROVE FALSE
    BY <1>1
  <2>2. (p + 1) * k <= q * k /\ (p + 1) * k = p * k + k
    BY <2>1, <1>1
  <2> QED
    BY <2>2, <1>1
<1>3. ~(q < p)
  <2>1. SUFFICES ASSUME q + 1 <= p PROVE FALSE
    BY <1>1
  <2>2. (q + 1) * k <= p * k /\ (q + 1) * k = q * k + k
    BY <2>1, <1>1
  <2> QED
    BY <2>2, <1>1
<1> QED
  BY <1>1, <1>2, <1>3 DEF p

\* A schedule has at least one unit and one shard, and the last of each begins
\* inside the range and reaches its end.
LEMMA Counts ==
    /\ UnitCount \in Nat \ {0}
    /\ (UnitCount - 1) * BlocksPerUnit < BlockCount
    /\ BlockCount <= UnitCount * BlocksPerUnit
    /\ ShardCount \in Nat \ {0}
    /\ (ShardCount - 1) * UnitsPerShard < UnitCount
    /\ UnitCount <= ShardCount * UnitsPerShard
<1>1. /\ UnitCount \in Nat \ {0}
      /\ (UnitCount - 1) * BlocksPerUnit < BlockCount
      /\ BlockCount <= UnitCount * BlocksPerUnit
  BY GeometryAssumption, CeilingDivision DEF UnitCount
<1>2. /\ ShardCount \in Nat \ {0}
      /\ (ShardCount - 1) * UnitsPerShard < UnitCount
      /\ UnitCount <= ShardCount * UnitsPerShard
  BY <1>1, GeometryAssumption, CeilingDivision DEF ShardCount
<1> QED
  BY <1>1, <1>2

\* The product of an index below count with the size of a piece.
LEMMA PieceStart ==
    ASSUME NEW i \in Nat, NEW count \in Nat \ {0}, NEW k \in Nat \ {0}, NEW n \in Nat,
           i <= count - 1, (count - 1) * k < n
    PROVE  i * k \in Nat /\ i * k < n
<1>1. i * k \in Nat
  OBVIOUS
<1>2. i * k <= (count - 1) * k
  OBVIOUS
<1> QED
  BY <1>1, <1>2

\* unit_block_range: every unit owns at least one block and only blocks of the
\* schedule.
LEMMA UnitGeometry ==
    ASSUME NEW u \in Units
    PROVE  /\ FirstBlock(u) \in Nat
           /\ UpperBlock(u) \in Nat
           /\ FirstBlock(u) < UpperBlock(u)
           /\ UpperBlock(u) <= BlockCount
           /\ UnitLen(u) \in Nat \ {0}
           /\ UpperBlock(u) = FirstBlock(u) + UnitLen(u)
           /\ \A i \in 1 .. UnitLen(u) : FirstBlock(u) + i - 1 \in Blocks
<1>1. u \in Nat /\ u <= UnitCount - 1
  BY Counts DEF Units
<1>2. FirstBlock(u) \in Nat /\ FirstBlock(u) < BlockCount
  BY <1>1, Counts, PieceStart, GeometryAssumption DEF FirstBlock
<1> QED
  BY <1>2, GeometryAssumption DEF UpperBlock, UnitLen, Smaller, Blocks

\* shard_unit_range: every shard owns at least one unit and only units of the
\* schedule.
LEMMA ShardGeometry ==
    ASSUME NEW s \in Shards
    PROVE  /\ FirstUnit(s) \in Nat
           /\ UpperUnit(s) \in Nat
           /\ FirstUnit(s) < UpperUnit(s)
           /\ UpperUnit(s) <= UnitCount
           /\ ShardLen(s) \in Nat \ {0}
           /\ UpperUnit(s) = FirstUnit(s) + ShardLen(s)
           /\ UnitsOf(s) \subseteq Units
           /\ \A i \in 1 .. ShardLen(s) : FirstUnit(s) + i - 1 \in UnitsOf(s)
<1>1. s \in Nat /\ s <= ShardCount - 1
  BY Counts DEF Shards
<1>2. FirstUnit(s) \in Nat /\ FirstUnit(s) < UnitCount
  BY <1>1, Counts, PieceStart, GeometryAssumption DEF FirstUnit
<1> QED
  BY <1>2, Counts, GeometryAssumption DEF UpperUnit, ShardLen, Smaller, Units, UnitsOf

\* shard_of_unit is the inverse of shard_unit_range.
LEMMA ShardOfUnit ==
    /\ \A u \in Units : ShardOf(u) \in Shards /\ u \in UnitsOf(ShardOf(u))
    /\ \A s \in Shards : \A u \in UnitsOf(s) : ShardOf(u) = s
<1>1. ASSUME NEW u \in Units
      PROVE  ShardOf(u) \in Shards /\ u \in UnitsOf(ShardOf(u))
  <2> DEFINE s == ShardOf(u)
  <2>1. u \in Nat /\ u < UnitCount
    BY <1>1, Counts DEF Units
  <2>2. s \in Nat /\ s * UnitsPerShard <= u /\ u < s * UnitsPerShard + UnitsPerShard
    BY <2>1, DivisionBounds, GeometryAssumption DEF ShardOf
  <2> HIDE DEF s
  <2>3. s <= ShardCount - 1
    <3>1. SUFFICES ASSUME ShardCount <= s PROVE FALSE
      BY <2>2, Counts
    <3>2. ShardCount * UnitsPerShard <= s * UnitsPerShard
      BY <3>1, <2>2, Counts, GeometryAssumption
    <3>3. s * UnitsPerShard \in Nat /\ ShardCount * UnitsPerShard \in Nat
      BY <2>2, Counts, GeometryAssumption
    <3> QED
      BY <3>2, <3>3, <2>1, <2>2, Counts
  <2>4. s \in Shards
    BY <2>2, <2>3, Counts DEF Shards
  <2>5. s * UnitsPerShard \in Nat
    BY <2>2, GeometryAssumption
  <2>6. u \in UnitsOf(s)
    BY <2>1, <2>2, <2>5, Counts, GeometryAssumption DEF UnitsOf, FirstUnit, UpperUnit, Smaller
  <2> QED
    BY <2>4, <2>6 DEF s
<1>2. ASSUME NEW s \in Shards, NEW u \in UnitsOf(s)
      PROVE  ShardOf(u) = s
  <2>1. /\ s \in Nat /\ FirstUnit(s) \in Nat /\ u \in Nat
        /\ FirstUnit(s) <= u /\ u < UpperUnit(s) /\ UpperUnit(s) \in Nat
    BY ShardGeometry, Counts DEF Shards, UnitsOf
  <2>2. s * UnitsPerShard <= u /\ u < s * UnitsPerShard + UnitsPerShard
    BY <2>1, Counts, GeometryAssumption DEF FirstUnit, UpperUnit, Smaller
  <2> QED
    BY <2>1, <2>2, DivisionUnique, GeometryAssumption DEF ShardOf
<1> QED
  BY <1>1, <1>2

\* The piece of size k, out of n indices, that holds index i.
LEMMA PieceOf ==
    ASSUME NEW n \in Nat \ {0}, NEW k \in Nat \ {0}, NEW count \in Nat \ {0},
           n <= count * k, NEW i \in 0 .. n - 1
    PROVE  /\ i \div k \in 0 .. count - 1
           /\ (i \div k) * k \in Nat
           /\ (i \div k) * k <= i
           /\ i < Smaller((i \div k) * k + k, n)
<1> DEFINE q == i \div k
<1>1. q \in Nat /\ q * k <= i /\ i < q * k + k
  BY DivisionBounds
<1> HIDE DEF q
<1>2. q <= count - 1
  <2>1. SUFFICES ASSUME count <= q PROVE FALSE
    BY <1>1
  <2>2. count * k <= q * k
    BY <2>1, <1>1
  <2>3. q * k \in Nat /\ count * k \in Nat
    BY <1>1
  <2> QED
    BY <2>2, <2>3, <1>1
<1>3. q * k \in Nat
  BY <1>1
<1> QED
  BY <1>1, <1>2, <1>3 DEF q, Smaller

\* Two adjacent indices lie in one piece, or end one and begin the next.
LEMMA NextPiece ==
    ASSUME NEW n \in Nat \ {0}, NEW k \in Nat \ {0}, NEW i \in 0 .. n - 1, i + 1 \in 0 .. n - 1
    PROVE  \/ (i + 1) \div k = i \div k
           \/ /\ (i + 1) \div k = i \div k + 1
              /\ i + 1 = (i \div k + 1) * k
              /\ i + 1 = Smaller((i \div k) * k + k, n)
<1> DEFINE q == i \div k
<1>1. q \in Nat /\ q * k <= i /\ i < q * k + k /\ q * k \in Nat
  BY DivisionBounds
<1> HIDE DEF q
<1>2. CASE i + 1 < q * k + k
  <2>1. q * k <= i + 1
    BY <1>1
  <2>2. (i + 1) \div k = q
    BY <1>1, <1>2, <2>1, DivisionUnique
  <2> QED
    BY <2>2 DEF q
<1>3. CASE i + 1 = q * k + k
  <2>1. (q + 1) * k = q * k + k /\ q + 1 \in Nat
    BY <1>1
  <2>2. (i + 1) \div k = q + 1
    BY <1>1, <1>3, <2>1, DivisionUnique
  <2> QED
    BY <1>1, <1>3, <2>1, <2>2 DEF q, Smaller
<1> QED
  BY <1>1, <1>2, <1>3

\* Every block lies in one unit, at a position inside it, and the next block
\* either follows it there or begins the next unit.
LEMMA UnitOfBlock ==
    ASSUME NEW b \in Blocks
    PROVE  /\ b \div BlocksPerUnit \in Units
           /\ b - FirstBlock(b \div BlocksPerUnit) + 1 \in 1 .. UnitLen(b \div BlocksPerUnit)
<1> DEFINE u == b \div BlocksPerUnit
<1>1. /\ u \in 0 .. UnitCount - 1
      /\ u * BlocksPerUnit \in Nat
      /\ u * BlocksPerUnit <= b
      /\ b < Smaller(u * BlocksPerUnit + BlocksPerUnit, BlockCount)
  BY PieceOf, Counts, GeometryAssumption DEF Blocks
<1> HIDE DEF u
<1>2. u \in Units /\ FirstBlock(u) <= b /\ b < UpperBlock(u)
  BY <1>1 DEF Units, FirstBlock, UpperBlock
<1>3. b - FirstBlock(u) + 1 \in 1 .. UnitLen(u)
  BY <1>2, UnitGeometry, GeometryAssumption DEF Blocks
<1> QED
  BY <1>2, <1>3 DEF u

LEMMA NextBlock ==
    ASSUME NEW b \in Blocks, b + 1 \in Blocks
    PROVE  LET u == b \div BlocksPerUnit
           IN  \/ (b + 1) \div BlocksPerUnit = u
               \/ /\ (b + 1) \div BlocksPerUnit = u + 1
                  /\ b + 1 = FirstBlock(u + 1)
                  /\ b + 1 = UpperBlock(u)
  BY NextPiece, GeometryAssumption DEF Blocks, FirstBlock, UpperBlock

\* The same for the units of a shard.
LEMMA PositionInShard ==
    ASSUME NEW u \in Units
    PROVE  /\ ShardOf(u) \in Shards
           /\ u - FirstUnit(ShardOf(u)) + 1 \in 1 .. ShardLen(ShardOf(u))
<1> DEFINE s == ShardOf(u)
<1>1. s \in Shards /\ u \in UnitsOf(s)
  BY ShardOfUnit
<1> HIDE DEF s
<1>2. u - FirstUnit(s) + 1 \in 1 .. ShardLen(s)
  BY <1>1, ShardGeometry, Counts DEF UnitsOf, Units
<1> QED
  BY <1>1, <1>2 DEF s

LEMMA NextUnit ==
    ASSUME NEW u \in Units, u + 1 \in Units
    PROVE  LET s == ShardOf(u)
           IN  \/ ShardOf(u + 1) = s
               \/ /\ ShardOf(u + 1) = s + 1
                  /\ u + 1 = FirstUnit(s + 1)
                  /\ u + 1 = UpperUnit(s)
  BY NextPiece, Counts, GeometryAssumption DEF Units, ShardOf, FirstUnit, UpperUnit

=============================================================================
