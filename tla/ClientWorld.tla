------------------------------ MODULE ClientWorld ------------------------------
(***************************************************************************)
(* The reference client at work: bots (class Bot of bot.js, with the geo   *)
(* stack of cargo.js) that move, dig and build on the map, driven by the   *)
(* keyboard (controls.js) or by their programs, the mouse that paints on   *)
(* it, the frame loop (WRenderer.Update), and the two timers of the        *)
(* physics.  All of them run in one thread: an event is one step.          *)
(*                                                                         *)
(* Whether the user or a program calls an operation of a bot makes no      *)
(* difference to it, except that the key loop repeats Move (see HoldKey).  *)
(* Who may call is the subject of module Programmator.                     *)
(***************************************************************************)
EXTENDS GeoPhysics, FiniteSets

CONSTANTS
    Bots,
    FirstBot,       \* Bots[0]
    Programmed,     \* the bots that run a program; keys drive the current one
    SavedWorlds,    \* the worlds a session may start from, as bytes
    Densities,      \* what RandInt(0, 10) gives on loading
    Clearing,       \* <<x, y, width, height>> cleared on start
    Seeds,          \* <<x, y, id>>: blocks the start may strew
    StartAt,        \* the cells bots may start on
    DropCells,      \* cells, and DropIds what the frame loop drops on them
    DropIds,
    MouseCells,     \* cells under the mouse, some outside the map
    Scatter,        \* how far off bots are teleported (within -5..5 in the code)
    BrushRadius,    \* of the clearing brush (5 in the code)
    Geology,        \* length of the geo stack (10 in the code)
    MaxEdits        \* bound on what users, programs and frames do

ASSUME ClientAssumption ==
    /\ IsFiniteSet(Bots) /\ FirstBot \in Bots /\ Programmed \subseteq Bots
    /\ SavedWorlds \subseteq Seq(0..255) /\ Densities \subseteq 0..10
    /\ Clearing \in Int \X Int \X Nat \X Nat /\ Seeds \subseteq Int \X Int \X (0..255)
    /\ StartAt \subseteq Int \X Int /\ DropCells \subseteq Int \X Int
    /\ MouseCells \subseteq Int \X Int /\ Scatter \subseteq (-5..5) \X (-5..5)
    /\ BrushRadius \in Nat /\ Geology \in Nat /\ MaxEdits \in Nat
    /\ DropIds \subseteq 40..45 \cup 60..68

VARIABLES
    world,
    bots,           \* the state of every bot
    CurrentBot,
    ignoreBorders,  \* the option: bots walk through everything
    hung,           \* the key loop never ends: the page is dead
    edits

vars == <<world, bots, CurrentBot, ignoreBorders, hung, edits>>

(* "zero": no cooldown was ever set; "on": it lasts; "edge": it ends in    *)
(* this very instant; "off": it is over.                                   *)
Cooldowns == {"zero", "on", "edge", "off"}

NewBot(pos, autodigg) ==
    [x |-> pos[1], y |-> pos[2], rotation |-> 0, cooldown |-> "zero", geo |-> << >>,
     autodigg |-> autodigg, cachedBlockUnder |-> 0]

(* The page has loaded and the user may have set the two options that need *)
(* nothing else: both are on at first.                                     *)
Init ==
    /\ \E data \in SavedWorlds, seed \in Seeds :
          \E density \in [1..Len(Decoded(data)) -> Densities] :
            LET loaded == LoadWorld(data, density)
                cleared == ClearRect(loaded, Clearing[1], Clearing[2], Clearing[3], Clearing[4])
            IN world = SetTileWithCoords(cleared, seed[1], seed[2], seed[3], 0)
    /\ \E at \in [Bots -> StartAt], autodigg \in BOOLEAN :
          bots = [b \in Bots |-> NewBot(at[b], b = FirstBot => autodigg)]
    /\ CurrentBot = FirstBot
    /\ ignoreBorders \in BOOLEAN
    /\ hung = FALSE
    /\ edits = 0

----------------------------------------------------------------------------
(* Operations of a bot. *)

inCooldown(b) == bots[b].cooldown = "on"
CanDigg(b) == bots[b].cooldown \in {"zero", "off"}

Ahead == <<<<0, -1>>, <<1, 0>>, <<0, 1>>, <<-1, 0>>>>   \* by rotation 0..3
bFrontX(bot) == bot.x + Ahead[bot.rotation + 1][1]
bFrontY(bot) == bot.y + Ahead[bot.rotation + 1][2]
BlockAhead(bot) == GetIDByCoord(world, bFrontX(bot), bFrontY(bot))

SetAhead(bot, id) == SetTileWithCoords(world, bFrontX(bot), bFrontY(bot), id, 0)

Cool(bot) == [bot EXCEPT !.cooldown = "on"]
Becomes(b, bot) == bots' = [bots EXCEPT ![b] = bot]

Edit ==
    /\ ~hung
    /\ edits < MaxEdits
    /\ edits' = edits + 1

Trails(bot) ==
    LET under == GetIDByCoord(world, bot.x, bot.y) IN
    {world} \cup CASE under = ground0 -> {SetTileWithCoords(world, bot.x, bot.y, ground1, 0)}
                   [] under = ground1 -> {SetTileWithCoords(world, bot.x, bot.y, ground2, 0)}
                   [] OTHER -> {}

\* Mutant: digging takes the block under the bot.
DuggUnder(bot) == IF BlockAhead(bot) \in diggable THEN DiggTile(world, bot.x, bot.y) ELSE world

Dugg(bot) ==
    IF BlockAhead(bot) \in diggable
    THEN DiggTile(world, bFrontX(bot), bFrontY(bot)) ELSE world

Digg(b) ==
    /\ CanDigg(b)
    /\ world' = Dugg(bots[b])
    /\ Becomes(b, Cool(bots[b]))
    /\ UNCHANGED hung

\* Mutant: Move returns the time that is left, not the length of the cooldown.
LoopsWhenReady(b) == bots[b].cooldown \in {"zero", "off"}

(* while (delta > 0) delta -= Move(): a Move that does nothing returns the *)
(* last cooldown, which is 0 as long as the bot never had one.             *)
LoopsForEver(b) == bots[b].cooldown = "zero"

(* side is a rotation, or -1 for straight ahead.  A bot that cannot move   *)
(* digs if it is to dig by itself and its cooldown is past its edge.       *)
Move(b, side, fromKeys) ==
    /\ ~inCooldown(b)
    /\ LET under == GetIDByCoord(world, bots[b].x, bots[b].y)
           turned == [bots[b] EXCEPT !.rotation = IF side = -1 THEN @ ELSE side,
                                     !.cachedBlockUnder = under]
       IN IF BlockAhead(turned) \notin solid \/ ignoreBorders
          THEN /\ world' \in Trails(turned)
               /\ Becomes(b, Cool([turned EXCEPT !.x = bFrontX(turned), !.y = bFrontY(turned)]))
               /\ UNCHANGED hung
          ELSE IF turned.autodigg /\ CanDigg(b)
          THEN /\ world' = Dugg(turned)
               /\ Becomes(b, Cool(turned))
               /\ UNCHANGED hung
          ELSE /\ Becomes(b, turned)
               /\ hung' = (fromKeys /\ LoopsForEver(b))
               /\ UNCHANGED world

Rotate(b, side) ==
    /\ ~inCooldown(b)
    /\ Becomes(b, Cool([bots[b] EXCEPT !.rotation = side]))
    /\ UNCHANGED <<world, hung>>

SetBlock(b) ==
    /\ ~inCooldown(b)
    /\ LET block == BlockAhead(bots[b]) IN
       world' = CASE block = block_green -> SetAhead(bots[b], block_yellow)
                  [] block = block_yellow -> SetAhead(bots[b], block_red)
                  [] block \in replesable -> SetAhead(bots[b], block_green)
                  [] OTHER -> world
    /\ Becomes(b, Cool(bots[b]))
    /\ UNCHANGED hung

(* The other blocks, by what must be ahead; nothing happens otherwise. *)
Build(b, allowed, id) ==
    /\ ~inCooldown(b)
    /\ BlockAhead(bots[b]) \in allowed
    /\ world' = SetAhead(bots[b], id)
    /\ Becomes(b, Cool(bots[b]))
    /\ UNCHANGED hung

SetRoad(b) == Build(b, ground0..ground2, road)
SetWB(b) == Build(b, (0..255) \ solid, block_war)
SetQuadro(b) ==
    \/ Build(b, {block_support}, block_quadro)
    \/ Build(b, replesable, block_support)

geoIsNoFull(bot) == Len(bot.geo) < Geology

\* Mutant: the stack grows past its length.
TakeMore(b) ==
    /\ BlockAhead(bots[b]) \in cantake
    /\ world' = ClearTile(world, bFrontX(bots[b]), bFrontY(bots[b]), FALSE)
    /\ Becomes(b, Cool([bots[b] EXCEPT !.geo = Append(@, BlockAhead(bots[b]))]))

TakeGeo(b) ==
    /\ BlockAhead(bots[b]) \in cantake
    /\ geoIsNoFull(bots[b])
    /\ world' = ClearTile(world, bFrontX(bots[b]), bFrontY(bots[b]), FALSE)
    /\ Becomes(b, Cool([bots[b] EXCEPT !.geo = Append(@, BlockAhead(bots[b]))]))

PlaceGeo(b) ==
    /\ BlockAhead(bots[b]) \notin solid
    /\ IF bots[b].geo = << >>
       THEN Becomes(b, Cool(bots[b])) /\ UNCHANGED world
       ELSE /\ world' = SetAhead(bots[b], Last(bots[b].geo))
            /\ Becomes(b, Cool([bots[b] EXCEPT !.geo = Front(@)]))

UseGeo(b) ==
    /\ ~inCooldown(b)
    /\ TakeGeo(b) \/ PlaceGeo(b)
    /\ UNCHANGED hung

Heal(b) ==
    /\ ~inCooldown(b)
    /\ Becomes(b, Cool(bots[b]))
    /\ UNCHANGED <<world, hung>>

Operate(b) ==
    /\ b \in Programmed \cup {CurrentBot}
    /\ Edit
    /\ \/ \E side \in -1..3 : Move(b, side, FALSE)
       \/ \E side \in 0..3 : Rotate(b, side)
       \/ Digg(b)
       \/ SetBlock(b)
       \/ SetRoad(b)
       \/ SetWB(b)
       \/ SetQuadro(b)
       \/ UseGeo(b)
       \/ Heal(b)
    /\ UNCHANGED <<CurrentBot, ignoreBorders>>

(* The 1 ms tick with a direction key held. *)
HoldKey(side) ==
    /\ Edit
    /\ Move(CurrentBot, side, TRUE)
    /\ UNCHANGED <<CurrentBot, ignoreBorders>>

(* External: the clock passes the end of a cooldown. *)
CooldownEnds(b) ==
    /\ ~hung
    /\ \/ bots[b].cooldown = "on" /\ \E c \in {"edge", "off"} : Becomes(b, [bots[b] EXCEPT !.cooldown = c])
       \/ bots[b].cooldown = "edge" /\ Becomes(b, [bots[b] EXCEPT !.cooldown = "off"])
    /\ UNCHANGED <<world, CurrentBot, ignoreBorders, hung, edits>>

----------------------------------------------------------------------------
(* Keys, options and mouse. *)

KeyE ==
    /\ Edit
    /\ Becomes(CurrentBot, [bots[CurrentBot] EXCEPT !.autodigg = ~@])
    /\ UNCHANGED <<world, CurrentBot, ignoreBorders, hung>>

Space ==
    /\ Edit
    /\ CurrentBot' \in Bots
    /\ UNCHANGED <<world, bots, ignoreBorders, hung>>

(* The other bots come to the current one, with Ctrl somewhere around it,  *)
(* and turn as it does, with Shift anyhow.                                 *)
KeyC ==
    /\ Edit
    /\ \E off \in [Bots -> Scatter \cup {<<0, 0>>}], turn \in {-1} \cup 0..3 :
          bots' = [b \in Bots |->
              IF b = CurrentBot THEN bots[b]
              ELSE [bots[b] EXCEPT !.x = bots[CurrentBot].x + off[b][1],
                                   !.y = bots[CurrentBot].y + off[b][2],
                                   !.rotation = IF turn = -1 THEN bots[CurrentBot].rotation
                                                ELSE turn]]
    /\ UNCHANGED <<world, CurrentBot, ignoreBorders, hung>>

options_ignore_borders ==
    /\ Edit
    /\ ignoreBorders' = ~ignoreBorders
    /\ UNCHANGED <<world, bots, CurrentBot, hung>>

(* Left button: one quadro block.  Middle button: clear, with a brush when *)
(* the mouse moves.  Clearing does not look at the borders.                *)
MouseSetBlock(x, y, id, radius) ==
    LET side == 2 * radius + 1 IN
    FoldLeft(LAMBDA v, c : IF id # 0 THEN SetTileWithCoords(v, c[1], c[2], id, 0)
                           ELSE ClearTile(v, c[1], c[2], FALSE),
             world, RectCells(x - radius, y - radius, side, side))

Mouse ==
    /\ Edit
    /\ \E c \in MouseCells :
          \/ world' = MouseSetBlock(c[1], c[2], block_quadro, 0)
          \/ \E radius \in {0, BrushRadius} : world' = MouseSetBlock(c[1], c[2], 0, radius)
    /\ UNCHANGED <<bots, CurrentBot, ignoreBorders, hung>>

----------------------------------------------------------------------------
(* The frame loop and the timers of the physics. *)

(* A bot that got into a block of another kind than the one it came from   *)
(* clears it.                                                              *)
CheckBlockUnder(w, bot) ==
    LET b == GetIDByCoord(w, bot.x, bot.y) IN
    IF b # bot.cachedBlockUnder /\ b \in solid THEN ClearTile(w, bot.x, bot.y, FALSE) ELSE w

(* A frame drops two blocks and looks under some of the bots. *)
Update ==
    /\ Edit
    /\ \E c1, c2 \in DropCells, id1, id2 \in DropIds, looked \in SUBSET Bots :
          LET w1 == SetTileWithCoords(world, c1[1], c1[2], id1, 0)
              w2 == SetTileWithCoords(w1, c2[1], c2[2], id2, 0)
          IN world' = IF ignoreBorders THEN w2
                      ELSE FoldLeft(LAMBDA v, b : CheckBlockUnder(v, bots[b]), w2, SetToSeq(looked))
    /\ UNCHANGED <<bots, CurrentBot, ignoreBorders, hung>>

(* The reach around the current bot, and around another one as a draw of   *)
(* random numbers decides.                                                 *)
ActiveChunks(wide) ==
    UNION {Around(bots[b].x, bots[b].y,
                  IF b = CurrentBot THEN <<2, 4, 2, 3>>
                  ELSE IF b \in wide THEN <<1, 1, 1, 0>> ELSE <<0, 1, 0, 0>>) : b \in Bots}

FallTimer ==
    /\ ~hung
    /\ \E wide \in SUBSET (Bots \ {CurrentBot}) : world' \in FallingCycle(world, ActiveChunks(wide))
    /\ UNCHANGED <<bots, CurrentBot, ignoreBorders, hung, edits>>

(* A tick whose coin falls on the other side does nothing. *)
GrowthTimer ==
    /\ ~hung
    /\ world.alivesList # << >>
    /\ world' \in Growth(world)
    /\ UNCHANGED <<bots, CurrentBot, ignoreBorders, hung, edits>>

Next ==
    \/ \E b \in Bots : Operate(b) \/ CooldownEnds(b)
    \/ \E side \in 0..3 : HoldKey(side)
    \/ KeyE
    \/ Space
    \/ KeyC
    \/ options_ignore_borders
    \/ Mouse
    \/ Update
    \/ FallTimer
    \/ GrowthTimer

(* Intervals go on ticking as long as the page lives, and the growth timer *)
(* tosses its coin for ever.                                               *)
Spec == Init /\ [][Next]_vars
FairSpec == Spec /\ WF_vars(FallTimer) /\ WF_vars(GrowthTimer)

(***************************************************************************)
(* Properties.                                                             *)
(***************************************************************************)
TypeOK ==
    /\ world.terrain \in [Cells -> 0..255] /\ world.background \in [Cells -> 0..255]
    /\ world.blocksMeta \in [Cells -> 0..255]
    /\ \A b \in Bots :
          /\ bots[b].x \in Int /\ bots[b].y \in Int /\ bots[b].rotation \in 0..3
          /\ bots[b].cooldown \in Cooldowns
          /\ bots[b].geo \in Seq(cantake) /\ Len(bots[b].geo) <= Geology
    /\ CurrentBot \in Bots /\ ignoreBorders \in BOOLEAN /\ hung \in BOOLEAN
    /\ edits \in 0..MaxEdits

(* The layers agree after any mix of digging, building, falling, growth    *)
(* and clearing, in and out of the map: the terrain holds solid blocks or  *)
(* nothing, the floor none, and a density belongs to a block that has one  *)
(* or marks a blue alive block.                                            *)
LayersAgree ==
    \A i \in Cells :
        /\ world.terrain[i] \in solid \cup {0}
        /\ world.background[i] \notin solid
        /\ world.blocksMeta[i] > 0 => world.terrain[i] \in hasdensity \cup {alive_blue}

(* No alive block is forgotten: whoever placed or moved it, and while the  *)
(* timer takes dead entries out of the list it walks over, its cell is     *)
(* listed, once.                                                           *)
AlivesAreListed ==
    LET list == world.alivesList IN
    /\ \A i \in Cells : world.terrain[i] \in is_alive => \E k \in 1..Len(list) : list[k] = i
    /\ \A j, k \in 1..Len(list) : list[j] = list[k] => j = k
    /\ world.iter \in 0..Len(list)

(* The key loop can only run for ever for a bot that has done nothing with *)
(* a cooldown since it was made, and that does not dig by itself.          *)
HangsOnlyWhenFresh ==
    hung => /\ bots[CurrentBot].cooldown = "zero" /\ bots[CurrentBot].geo = << >>
            /\ ~bots[CurrentBot].autodigg /\ ~ignoreBorders

(* A bot inside the map reaches no cell of the terrain but the one ahead   *)
(* of it, and no floor but that and its own, also at the borders, although *)
(* DiggTile and ClearTile do not check them.                               *)
BotsEditInReach == [][\A b \in Bots :
    Operate(b) /\ ValidCoords(bots[b].x, bots[b].y) =>
        LET here == bots[b]
            at == [here EXCEPT !.rotation = bots'[b].rotation]
            ahead == IF ValidCoords(bFrontX(at), bFrontY(at))
                     THEN {Index(bFrontX(at), bFrontY(at))} ELSE {}
        IN \A i \in Cells :
              /\ i \notin ahead => /\ world'.terrain[i] = world.terrain[i]
                                   /\ world'.blocksMeta[i] = world.blocksMeta[i]
              /\ i \notin ahead \cup {Index(here.x, here.y)} =>
                    world'.background[i] = world.background[i]]_vars

Count(id) == Cardinality({i \in Cells : world.terrain[i] = id})
Held(b, id) == Cardinality({k \in 1..Len(bots[b].geo) : bots[b].geo[k] = id})
Present == {world.terrain[i] : i \in Cells} \ {0}

(* A cycle of falling, with blocks sliding into cells that others leave,   *)
(* neither loses nor doubles a block, and neither does a bot that takes a  *)
(* block with its geo stack or puts it back.  Growth brings no alive block *)
(* to life and kills none, while blue ones move through cells the others   *)
(* grow into.                                                              *)
BlocksConserved == [][
    /\ FallTimer => \A id \in Present \cup Present' : Count(id)' = Count(id)
    /\ \A b \in Bots : Edit /\ UseGeo(b) =>
          \A id \in (Present \cup Present') : Count(id)' + Held(b, id)' = Count(id) + Held(b, id)
    /\ GrowthTimer => \A id \in is_alive : Count(id)' = Count(id)]_vars

(* Every block that can fall comes to rest on something solid once nobody  *)
(* touches the map, in the chunks around the current bot.                  *)
BlocksComeToRest == <>[](
    hung \/ \A i \in Cells :
        world.terrain[i] \in falltype /\ ChunkOf(i) \in ActiveChunks({}) =>
            GetIDByCoord(world, X(i), Y(i) + 1) \in solid)

(* Once nobody touches the map, no cyan alive block is left beside a free  *)
(* cell: the iterator comes round to it although entries are added to the  *)
(* list and taken out while it walks.                                      *)
CyanBlocksGrow == <>[](
    hung \/ \A i \in Cells : world.terrain[i] = alive_cyan =>
        \A k \in 1..4 : ~Free(world, X(i) + Sides[k][1], Y(i) + Sides[k][2]))

(* A world nobody touches settles, whatever the order of the two timers.   *)
WorldSettles == BlocksComeToRest /\ CyanBlocksGrow
===============================================================================
