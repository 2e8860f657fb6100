------------------------------- MODULE WorldMap -------------------------------
(***************************************************************************)
(* The map of the reference client (class WorldMap of wmap.js) and the     *)
(* table of block kinds it consults (BlockStats of DataTables.js).  A      *)
(* world is a record of its layers; cell <<x, y>> has the index            *)
(* x + y * Width, as in the code.  Operations that check the borders do    *)
(* nothing outside of them.  ClearTile and DiggTile do not check: outside, *)
(* they touch the cell with that index in another row, if there is one.    *)
(***************************************************************************)
EXTENDS Integers, Sequences, SequencesExt

CONSTANTS Width, Height

ASSUME SizeAssumption == Width \in Nat \ {0} /\ Height \in Nat \ {0}

Cells == 0..(Width * Height - 1)

(* Kinds of blocks, by the properties BlockStats gives them. *)
solid ==
    {38, 86} \cup 40..45 \cup 48..55 \cup 60..68 \cup 71..75 \cup 80..82
    \cup 90..94 \cup 97..122
replesable == 32..35 \cup 60..65 \cup 97..100
cantake ==
    40..45 \cup 50..55 \cup 60..65 \cup 71..75 \cup {82, 116, 119} \cup 91..94
    \cup 97..100 \cup 107..112
bolder == 40..45 \cup 92..94
sand == 60..68 \cup {82, 86, 91} \cup 97..100
falltype == bolder \cup sand
is_alive == 50..55 \cup {116}
hasdensity == {48, 81, 101, 102, 105} \cup 71..75 \cup 107..112
diggable == solid \ {38, 80, 90, 104, 106, 114, 115, 117, 119}  \* hardness >= 0

(* The names of Block that the code uses. *)
ground0 == 32
ground1 == 33
ground2 == 34
road == 35
block_quadro == 48
block_support == 49
alive_cyan == 50
alive_red == 51
alive_vio == 52
alive_white == 54
block_war == 81
magma == 91
block_green == 101
block_yellow == 102
block_fed == 104
block_red == 105
cry_red == 108
cry_blue == 109
cry_vio == 110
cry_white == 111
cry_cyan == 112
rock_black == 114
alive_blue == 116
rock_hypno == 119

Index(x, y) == x + y * Width
X(i) == i % Width
Y(i) == i \div Width
ValidCoords(x, y) == x \in 0..(Width - 1) /\ y \in 0..(Height - 1)

GetIDByCoord_Terrain(w, x, y) ==
    IF ValidCoords(x, y) THEN w.terrain[Index(x, y)] ELSE block_fed

GetIDByCoord(w, x, y) ==
    IF ValidCoords(x, y)
    THEN LET tid == w.terrain[Index(x, y)] IN
         IF tid \in solid THEN tid ELSE w.background[Index(x, y)]
    ELSE block_fed

GetDensity(w, x, y) == IF ValidCoords(x, y) THEN w.blocksMeta[Index(x, y)] ELSE 0

SetDensity(w, x, y, density) ==
    IF ValidCoords(x, y) THEN [w EXCEPT !.blocksMeta[Index(x, y)] = density] ELSE w

\* Mutant: an alive block is placed without being listed.
SetTileUnlisted(w, i, id, density) ==
    IF id \in solid
    THEN [w EXCEPT !.terrain[i] = id,
                   !.blocksMeta[i] = IF id \in hasdensity THEN density ELSE 0]
    ELSE [w EXCEPT !.background[i] = id]

(* _SetTile: solid blocks and the floor are layers of their own.  The list *)
(* of alive blocks is a Set of the language: it keeps its insertion order  *)
(* and an index that is in it already keeps its place.                     *)
SetTile(w, i, id, density) ==
    IF id \in solid
    THEN [w EXCEPT !.terrain[i] = id,
                   !.blocksMeta[i] = IF id \in hasdensity THEN density ELSE 0,
                   !.alivesList = IF id \in is_alive /\ ~Contains(@, i)
                                  THEN Append(@, i) ELSE @]
    ELSE [w EXCEPT !.background[i] = id]

SetTileWithCoords(w, x, y, id, density) ==
    IF ValidCoords(x, y) THEN SetTile(w, Index(x, y), id, density) ELSE w

SetTileWithIndex(w, i, id, density) == IF i \in Cells THEN SetTile(w, i, id, density) ELSE w

DiggTile(w, x, y) ==
    LET i == Index(x, y) IN
    IF i \notin Cells THEN w
    ELSE IF w.blocksMeta[i] > 0 THEN [w EXCEPT !.blocksMeta[i] = @ - 1]
    ELSE [w EXCEPT !.terrain[i] = 0]

\* Mutant: the density of the block stays behind.
ClearTileOnly(w, x, y, clearBackground) ==
    LET i == Index(x, y) IN
    IF i \notin Cells THEN w
    ELSE [w EXCEPT !.terrain[i] = 0,
                   !.background[i] = IF clearBackground THEN road ELSE @]

ClearTile(w, x, y, clearBackground) ==
    LET i == Index(x, y) IN
    IF i \notin Cells THEN w
    ELSE [w EXCEPT !.terrain[i] = 0, !.blocksMeta[i] = 0,
                   !.background[i] = IF clearBackground THEN road ELSE @]

(* The cells of a rectangle, row by row. *)
RectCells(xs, ys, width, height) ==
    [k \in 1..(width * height) |->
        <<xs + ((k - 1) % width), ys + ((k - 1) \div width)>>]

ClearRect(w, xs, ys, width, height) ==
    FoldLeft(LAMBDA v, c : ClearTile(v, c[1], c[2], TRUE), w,
             RectCells(xs, ys, width, height))

(* Resyze: the alive list is emptied, which leaves its iterator at the     *)
(* first of the entries to come.                                           *)
Resyze ==
    [terrain |-> [i \in Cells |-> 0], background |-> [i \in Cells |-> ground0],
     blocksMeta |-> [i \in Cells |-> 0], alivesList |-> << >>, iter |-> 0]

(* The bytes of a saved world: an id followed by 0 and a count stands for  *)
(* a run of that id.                                                       *)
Decoded(data) ==
    LET From[i \in 1..(Len(data) + 1)] ==
        IF i > Len(data) THEN << >>
        ELSE IF i <= Len(data) - 2 /\ data[i + 1] = 0
        THEN [j \in 1..data[i + 2] |-> data[i]] \o From[i + 3]
        ELSE <<data[i]>> \o From[i + 1]
    IN From[1]

(* density: what RandInt gave for each tile. *)
LoadWorld(data, density) ==
    LET ids == Decoded(data) IN
    FoldLeft(LAMBDA v, k : SetTileWithIndex(v, k - 1, ids[k], density[k]), Resyze,
             [k \in 1..Len(ids) |-> k])
===============================================================================
