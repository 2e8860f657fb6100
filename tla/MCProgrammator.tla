---------------------------- MODULE MCProgrammator ----------------------------
(***************************************************************************)
(* Programs in lines of four cells that between them hold a cell of every  *)
(* family, calls that nest and recurse, and lines that wrap around.        *)
(***************************************************************************)
EXTENDS Programmator

MCLineLength == 4
MCMaxDepth == 2
MCMaxView == 1

C(id) == [id |-> id, to |-> -1, var |-> "", val |-> FALSE]
J(id, to) == [id |-> id, to |-> to, var |-> "", val |-> FALSE]
V(id, var, val) == [id |-> id, to |-> -1, var |-> var, val |-> val]

(* A subroutine in the second line that calls itself and comes back. *)
Recursive ==
    <<C("look_a"), J("GO_SUB", 4), C("move_A"), C("start"),
      C("is_empty"), J("IF_TRUE", 7), J("GO_STATE", 4), C("RETURN")>>
(* A function gives its condition back to its caller. *)
Function ==
    <<J("GO_FUNC", 4), J("IF_FALSE", -1), C("FLIP"), C("stop"),
      C("OR"), C("is_in_gun"), C("HP_half"), C("RETURN_FUNK")>>
Variables ==
    <<V("VAR_EQUAL", "a", FALSE), V("VAR_EQUAL", "STK", TRUE), V("VAR_EQUAL", "SET", TRUE), C("new_line"),
      V("VAR_LESS", "a", TRUE), V("VAR_EQUAL", "AD2", FALSE), V("VAR_EQUAL", "", FALSE), V("VAR_MORE", "", TRUE)>>
Work ==
    <<C("MACROS_DIGG_AROUND"), C("mark"), J("GO_STATE", 4), C("AGR_ON"),
      C("AND"), C("MACROS_BLOCK"), C("mark"), C("RETURN_STATE")>>
(* One line, no start cell and no variable: it jumps to what is left of a  *)
(* longer program's start, and its command finds a name of that program.   *)
Short == <<C("HAND_MODE_ON"), V("VAR_EQUAL", "MUL", TRUE), C("rotate_CW"), J("GO_TO", -1)>>
(* The index runs off the end of the second line. *)
Broken == <<C("digg"), C("look_f"), C("new_line"), C("empty"), C("rotate_random")>>

MCPrograms == {TESTPROGRAM, Recursive, Function, Variables, Work, Short, Broken}
===============================================================================
