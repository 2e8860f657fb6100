------------------------------ MODULE GeoPhysics ------------------------------
(***************************************************************************)
(* The physics of the map (class GeoPhisics of geophys.js): sand and       *)
(* boulders fall, alive blocks grow crystals.  A callback runs to its end  *)
(* before anything else happens; since it draws random numbers on the way, *)
(* it is a function from a world to the set of worlds it can leave.        *)
(***************************************************************************)
EXTENDS WorldMap

CONSTANTS
    ChunkSize,      \* cells along the side of a chunk (32 in the code)
    GrowthBatch     \* entries of the alive list visited per tick (10 in the code)

ASSUME PhysicsAssumption == ChunkSize \in Nat \ {0} /\ GrowthBatch \in Nat

chunkWidth == (Width + ChunkSize - 1) \div ChunkSize
chunkHeight == (Height + ChunkSize - 1) \div ChunkSize
Chunks == (0..(chunkWidth - 1)) \X (0..(chunkHeight - 1))
ChunkOf(i) == <<X(i) \div ChunkSize, Y(i) \div ChunkSize>>

(* The chunks around a bot, by how far to the left, up, right and down.    *)
Around(x, y, reach) ==
    LET bx == x \div ChunkSize
        by == y \div ChunkSize
    IN {c \in Chunks : /\ c[1] \in (bx - reach[1])..(bx + reach[3])
                       /\ c[2] \in (by - reach[2])..(by + reach[4])}

----------------------------------------------------------------------------
Free(w, x, y) == GetIDByCoord_Terrain(w, x, y) \notin solid

(* 1: fall; 2: stay; 0: the block below may fall too, try to slide off it. *)
DownFree(w, x, y) ==
    IF GetIDByCoord(w, x, y + 1) \notin solid
    THEN IF /\ GetIDByCoord(w, x, y + 2) \in falltype
            /\ GetIDByCoord(w, x, y + 3) \notin solid
         THEN 2 ELSE 1
    ELSE IF GetIDByCoord(w, x, y + 1) \in falltype THEN 0 ELSE 2

\* Mutant: the cell the block leaves is not cleared.
CopyBlock(w, x, y, nx, block) == SetTileWithCoords(w, nx, y + 1, block, 0)

FallTo(w, x, y, nx, block) ==
    SetTileWithCoords(ClearTile(w, x, y, FALSE), nx, y + 1, block, 0)

(* Room on side d: a boulder also needs the cell beside it. *)
CanSlide(w, x, y, d, block) ==
    Free(w, x + d, y + 1) /\ (block \in bolder => Free(w, x + d, y))

(* One cell of the scan; the side tried first is random. *)
FallCell(w, x, y) ==
    LET block == GetIDByCoord_Terrain(w, x, y)
        SlideFirst(d) ==
            IF CanSlide(w, x, y, d, block) THEN FallTo(w, x, y, x + d, block)
            ELSE IF CanSlide(w, x, y, -d, block) THEN FallTo(w, x, y, x - d, block)
            ELSE w
    IN IF block \notin falltype \/ DownFree(w, x, y) = 2 THEN {w}
       ELSE IF DownFree(w, x, y) = 1 THEN {FallTo(w, x, y, x, block)}
       ELSE {SlideFirst(1), SlideFirst(-1)}

(* Chunks from the lowest row up and from left to right; in a chunk, cells *)
(* in the same order.                                                      *)
ScanOrder ==
    LET Rank(i) == LET c == ChunkOf(i) IN
            (((chunkHeight - c[2]) * chunkWidth + c[1]) * Height + Height - Y(i)) * Width + X(i)
    IN [k \in 1..(Width * Height) |->
            CHOOSE i \in Cells : Cardinality({j \in Cells : Rank(j) < Rank(i)}) = k - 1]

(* After[k]: the worlds after k cells of the scan. *)
FallingCycle(w, activeChunks) ==
    LET After[k \in 0..Len(ScanOrder)] ==
        IF k = 0 THEN {w}
        ELSE LET i == ScanOrder[k] IN
             IF ChunkOf(i) \in activeChunks
             THEN UNION {FallCell(v, X(i), Y(i)) : v \in After[k - 1]}
             ELSE After[k - 1]
    IN After[Len(ScanOrder)]

----------------------------------------------------------------------------
Sides == <<<<-1, 0>>, <<1, 0>>, <<0, -1>>, <<0, 1>>>>
WhiteSides ==       \* as written: one corner twice and one never
    <<<<-1, 0>>, <<1, 0>>, <<0, 1>>, <<1, 1>>, <<1, -1>>, <<1, -1>>, <<-1, 1>>>>

AliveProductHardness ==
    [b \in is_alive |-> CASE b = alive_red -> 2 [] b = alive_white -> 8
                          [] b = alive_blue -> 20 [] OTHER -> 1]

CalculateAliveProductHardness(w, x, y, block) ==
    LET Hypno(k) == GetIDByCoord_Terrain(w, x + Sides[k][1], y + Sides[k][2]) = rock_hypno
    IN AliveProductHardness[block] * (1 + Cardinality({k \in 1..4 : Hypno(k)}))

IsBlackRockNear(w, x, y) ==
    \E dx, dy \in -1..1 :
        <<dx, dy>> # <<0, 0>> /\ GetIDByCoord_Terrain(w, x + dx, y + dy) = rock_black

SetIfFree(w, x, y, block, h) ==
    IF Free(w, x, y) THEN SetTileWithCoords(w, x, y, block, h) ELSE w

Product ==
    [b \in {alive_cyan, alive_red, alive_vio, alive_white} |->
        CASE b = alive_cyan -> cry_cyan [] b = alive_red -> cry_red
          [] b = alive_vio -> cry_vio [] b = alive_white -> cry_white]

Produce(w, x, y, block, sides) ==
    LET h == CalculateAliveProductHardness(w, x, y, block) IN
    FoldLeft(LAMBDA v, s : SetIfFree(v, x + s[1], y + s[2], Product[block], h), w, sides)

(* A blue one moves to a free side, marked as just moved, and leaves a     *)
(* crystal behind.                                                         *)
MoveBlue(w, x, y, s) ==
    LET mx == x + s[1]
        my == y + s[2]
        h == CalculateAliveProductHardness(w, x, y, alive_blue)
    IN IF ~Free(w, mx, my) THEN w
       ELSE SetTileWithCoords(
                SetDensity(SetTileWithCoords(w, mx, my, alive_blue, 0), mx, my, 1),
                x, y, cry_blue, h)

(* Black and rainbow ones produce nothing. *)
AliveGrowth(w, x, y) ==
    LET block == GetIDByCoord_Terrain(w, x, y) IN
    CASE \/ block = alive_cyan
         \/ block \in {alive_red, alive_vio} /\ IsBlackRockNear(w, x, y)
            -> {Produce(w, x, y, block, Sides)}
      [] block = alive_white /\ GetIDByCoord(w, x, y - 1) = magma
            -> {ClearTile(Produce(w, x, y, block, WhiteSides), x, y - 1, FALSE)}
      [] block = alive_blue
            -> IF GetDensity(w, x, y) > 0 THEN {SetDensity(w, x, y, 0)}
               ELSE {MoveBlue(w, x, y, Sides[k]) : k \in 1..4}
      [] OTHER -> {w}

\* Mutant: a finished iterator is not replaced.
VisitOnce(w) ==
    IF w.iter >= Len(w.alivesList) THEN {w}
    ELSE LET val == w.alivesList[w.iter + 1] IN
         IF w.terrain[val] \in is_alive
         THEN AliveGrowth([w EXCEPT !.iter = @ + 1], X(val), Y(val))
         ELSE {[w EXCEPT !.alivesList = RemoveAt(@, w.iter + 1)]}

(* One turn of the loop: the next entry grows, or leaves the list when its *)
(* cell is no longer alive; past the last entry the iterator starts again. *)
Visit(w) ==
    IF w.iter >= Len(w.alivesList) THEN {[w EXCEPT !.iter = 0]}
    ELSE LET val == w.alivesList[w.iter + 1] IN
         IF w.terrain[val] \in is_alive
         THEN AliveGrowth([w EXCEPT !.iter = @ + 1], X(val), Y(val))
         ELSE {[w EXCEPT !.alivesList = RemoveAt(@, w.iter + 1)]}

Growth(w) ==
    LET After[k \in 0..GrowthBatch] ==
        IF k = 0 THEN {w} ELSE UNION {Visit(v) : v \in After[k - 1]}
    IN After[GrowthBatch]
===============================================================================
