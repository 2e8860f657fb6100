---------------------------- MODULE MCBotsContainer ----------------------------
(***************************************************************************)
(* A map of three by three cells in four chunks, the last ones cut by the  *)
(* border, and two bots that also step out of it on every side.            *)
(***************************************************************************)
EXTENDS BotsContainer

CONSTANTS b1, b2

MCBots == {b1, b2}
MCXs == -1..4
MCYs == -1..4
MCQueries == {<<0, 0, 0>>, <<1, 1, 1>>, <<2, 1, 2>>, <<-1, 2, 3>>, <<3, 3, 4>>}
===============================================================================
