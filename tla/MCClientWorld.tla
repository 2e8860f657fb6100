----------------------------- MODULE MCClientWorld -----------------------------
(***************************************************************************)
(* A map of two by four cells in two chunks, strewn with sand, a       *)
(* boulder, alive blocks, crystals and rocks.                              *)
(***************************************************************************)
EXTENDS ClientWorld

CONSTANTS b1, b2

MCBots == {b1, b2}
MCProgrammed == {b1}
(* Magma above a white alive block, a boulder in the air, a cyan one below *)
(* and a blue one strewn on top.  The second byte row of a saved world is  *)
(* a run; the last two bytes are always single.                            *)
Garden == <<91, 32, 54, 32, 32, 0, 1, 40, 50, 32>>
MCSavedWorlds == {Garden}
MCDensities == {1}
MCClearing == <<1, 0, 1, 1>>
MCSeeds == {<<1, 1, 116>>}
MCStartAt == {<<1, 1>>}
MCDropCells == {<<1, 0>>, <<7, 7>>}
MCDropIds == {60}
MCMouseCells == {<<-1, 1>>}
MCScatter == {<<-2, 0>>}
===============================================================================
