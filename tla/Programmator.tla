----------------------------- MODULE Programmator -----------------------------
(***************************************************************************)
(* The program interpreter of the reference client: ProgramCondition and   *)
(* ProgramStack, the handlers of ExecutorList, the ticker of main.js that  *)
(* runs them, and the keys and window messages that start, stop and        *)
(* replace a program while it runs (docs/reference/js_reference/scripts).  *)
(*                                                                         *)
(* One bot.  A program is a sequence of cells; index i of the code is      *)
(* program[i + 1] here.  What a cell sees of the world (the blocks around  *)
(* the bot, its hit points, the values of variables) is a nondeterministic *)
(* choice.  A handler that finds the bot in cooldown returns true and      *)
(* leaves everything as it is: that is a stuttering step, so the actions   *)
(* of such cells have the guard ~bot.cooldown.                             *)
(***************************************************************************)
EXTENDS Integers, Sequences

CONSTANTS
    Programs,       \* the programs the editor may send with "setprogram"
    LineLength,     \* cells in a line (16 in the code)
    MaxDepth,       \* bound on the depth of the stack: the code has none
    MaxView         \* bound on the distance of the view cursor

TESTPROGRAM == <<[id |-> "empty", to |-> -1, var |-> "", val |-> FALSE]>>

ASSUME LineLengthAssumption == LineLength \in Nat \ {0, 1}
ASSUME BoundsAssumption == MaxDepth \in Nat /\ MaxView \in Nat
ASSUME ProgramsAssumption ==
    /\ TESTPROGRAM \in Programs
    /\ \A p \in Programs :
          /\ p \in Seq([id : STRING, to : Int, var : STRING, val : BOOLEAN])
          /\ p # << >>

VARIABLES
    condition,      \* the bot's ProgramCondition
    bot,            \* what the handlers use of the bot
    ticking         \* ProgTicker is armed: no handler has thrown

vars == <<condition, bot, ticking>>

None == "null"        \* no name
NoRotation == -1       \* null in the code

(* Names a VAR cell may hold.  A name of the first set is read from the    *)
(* bot, a name of the second one is an operation on the last variables,    *)
(* any other one is a variable of the program.  IDR is listed as readable  *)
(* but its getter returns nothing.                                         *)
ReadonlyVariables ==
    {"AUT", "AGR", "HND", "DBG", "STK", "DIR", "X", "Y", "CEL", "HP", "HPP",
     "TIM", "G", "GP", "C", "CP", "R", "RP", "B", "BP", "V", "VP", "W", "WP",
     "GEO", "GEP", "LOA", "RND", "FLP", "BOO", "IDR", "AX", "AY", "DX", "DY"}
PComands1 == {"SET", "ADD", "MUL", "DIV", "SUB", "MOD"}
PComands2 == {"AD2", "MU2", "DI2", "SU2"}
PComands == PComands1 \cup PComands2
HasGetter == ReadonlyVariables \ {"IDR"}

isWriteble(name) == name # None /\ name \notin ReadonlyVariables \cup PComands

(***************************************************************************)
(* The families of cells of CellID that share a handler's shape.           *)
(***************************************************************************)
LookAt ==       \* viewOffset.Set, x mirrored by FLIP
    [look_WA |-> <<-1, -1>>, look_W |-> <<0, -1>>, look_DW |-> <<1, -1>>,
     look_A |-> <<-1, 0>>, look_D |-> <<1, 0>>, look_AS |-> <<-1, 1>>,
     look_S |-> <<0, 1>>, look_SD |-> <<1, 1>>]
LookBy ==       \* viewOffset.Add, x mirrored by FLIP
    [look_w |-> <<0, -1>>, look_a |-> <<-1, 0>>,
     look_s |-> <<0, 1>>, look_d |-> <<1, 0>>]
LookTurn ==     \* viewOffset.Set (upper case) or Add, relative to the rotation
    [look_F |-> 0, look_L |-> 3, look_R |-> 1,
     look_f |-> 0, look_l |-> 3, look_r |-> 1]
Turns == [move_W |-> 0, move_A |-> 3, move_S |-> 2, move_D |-> 1,
          rotate_w |-> 0, rotate_a |-> 3, rotate_s |-> 2, rotate_d |-> 1]
Moves == {"move_W", "move_A", "move_S", "move_D", "move_F"}
Rotates == {"rotate_w", "rotate_a", "rotate_s", "rotate_d"}
Spins == {"rotate_CCW", "rotate_CW", "rotate_random"}
Uses == {"digg", "set_block", "set_geo", "set_WB", "set_road", "heal", "set_quadro"}
Actions == Moves \cup Rotates \cup Spins \cup Uses
Calls == {"GO_SUB", "GO_STATE", "GO_FUNC"}
Macros == {"MACROS_DIGG", "MACROS_BLOCK", "MACROS_HEAL"}
Predicates ==
    {"is_no_empty", "is_empty", "is_falls", "is_crys", "is_alive", "is_bolder",
     "is_sand", "is_diggable", "is_non_diggable", "is_red_rock",
     "is_black_rock", "is_slime", "is_box", "is_quadro", "is_road",
     "is_red_block", "is_yellow_block", "is_green_block", "is_support_block",
     "is_in_gun", "HP_half", "HP_less100"}
Inventory == {"INVENTORY_w", "INVENTORY_a", "INVENTORY_s", "INVENTORY_d"}
Stubs ==        \* handlers that only log
    Inventory \cup {"mark", "non_use_8", "DBG_MSG", "DBG_PAUSE", "IF_RESP", "MACROS_GUN",
     "ONLINE_BOOM", "ONLINE_RAZ", "ONLINE_PROT", "ONLINE_GEO", "ONLINE_ZZ",
     "ONLINE_C190", "ONLINE_POLY", "ONLINE_UP", "ONLINE_CRAFT", "ONLINE_NANO",
     "ONLINE_REM", "non_use_71", "beep"}
Modes ==        \* switch a mode of the bot that no other handler reads
    {"AUTODIGG_ON", "AUTODIGG_OF", "AGR_ON", "AGR_OFF"}

(***************************************************************************)
(* State.                                                                  *)
(***************************************************************************)
LogicMode == {"off", "none", "and", "or"}

ProgramStack ==
    [viewOffset |-> <<0, 0>>, logicalValue |-> FALSE, mode_logic |-> "off",
     returnIndex |-> -1]

VarCacher == [vars |-> <<None, None>>, YoungerIs |-> 0]

Younger(l) == IF l.YoungerIs = 1 THEN l.vars[1] ELSE l.vars[2]
Older(l) == IF l.YoungerIs = 1 THEN l.vars[2] ELSE l.vars[1]
Remember(l, name) ==
    [vars |-> IF l.YoungerIs = 1 THEN <<l.vars[1], name>> ELSE <<name, l.vars[2]>>,
     YoungerIs |-> (l.YoungerIs + 1) % 2]

Init ==
    /\ condition = [program |-> TESTPROGRAM, isExecute |-> FALSE,
                    isHandModeActive |-> FALSE, startIndex |-> 0,
                    currIndex |-> 0, rotate_cache |-> NoRotation, stackDepth |-> 0,
                    mode_flip |-> FALSE, uservariables |-> << >>,
                    lastVariables |-> VarCacher, stack |-> <<ProgramStack>>]
    /\ bot = [cooldown |-> FALSE, rotationIndex |-> 0]
    /\ ticking = TRUE

InProgram == condition.currIndex < Len(condition.program)
Cell == condition.program[condition.currIndex + 1]
Top == condition.stack[condition.stackDepth + 1]
\* Mutant: the keys work while a program runs.
ManualControlAlways == TRUE
isManualControlAlloved == condition.isExecute => condition.isHandModeActive

\* Mutant: a macro that was cut short leaves its rotation behind.
ResetInMacro(c) ==
    [c EXCEPT !.stack[1] = ProgramStack, !.uservariables = << >>, !.currIndex = 0,
              !.stackDepth = 0, !.mode_flip = FALSE, !.isHandModeActive = FALSE]
(* ProgramCondition.Reset.  It keeps startIndex, lastVariables and the     *)
(* frames above the first one.                                             *)
Reset(c) ==
    [c EXCEPT !.stack[1] = ProgramStack, !.uservariables = << >>,
              !.stackDepth = 0, !.currIndex = 0, !.mode_flip = FALSE,
              !.rotate_cache = NoRotation, !.isHandModeActive = FALSE]

\* Mutant: a line is one cell longer.
IterateBack(c) ==
    [c EXCEPT !.currIndex = IF @ % LineLength = LineLength - 1 THEN @ - LineLength ELSE @ + 1]
\* Mutant: the index goes on into the next line.
IterateOn(c) == [c EXCEPT !.currIndex = @ + 1]
(* The end of Execute: the next cell of the line, around to its first one. *)
Iterate(c) ==
    [c EXCEPT !.currIndex =
        IF @ % LineLength = LineLength - 1 THEN @ - (LineLength - 1) ELSE @ + 1]

\* Mutant: the frame of the first caller is written.
SetBottom(c, frame) == [c EXCEPT !.stack[1] = frame]
SetTop(c, frame) == [c EXCEPT !.stack[c.stackDepth + 1] = frame]
ToIndex(to) == IF to >= 0 THEN to ELSE condition.startIndex
GoTo(c, index) == [c EXCEPT !.currIndex = index]
Flip(v) == IF condition.mode_flip THEN <<-v[1], v[2]>> ELSE v
Facing(turn) ==
    <<<<0, -1>>, <<1, 0>>, <<0, 1>>, <<-1, 0>>>>[((bot.rotationIndex + turn) % 4) + 1]

compareWithLogicValue(frame, value) ==
    [frame EXCEPT
        !.logicalValue = (CASE frame.mode_logic = "or"  -> @ \/ value
                            [] frame.mode_logic = "and" -> @ /\ value
                            [] OTHER                    -> value),
        !.mode_logic = IF @ = "off" THEN "none" ELSE @]

(* A use of the bot.  One that may be refused (Digg at the very end of a   *)
(* cooldown, a move into a wall, a block that does not fit) may leave it   *)
(* out of cooldown.                                                        *)
Busy(refusable, rotation) ==
    \E c \in IF refusable THEN BOOLEAN ELSE {TRUE} :
        bot' = [bot EXCEPT !.cooldown = c, !.rotationIndex = rotation]

----------------------------------------------------------------------------
(***************************************************************************)
(* The handlers of ExecutorList.  Each one is a whole call of Execute for  *)
(* the bot; the ones that do not return true end in Iterate.               *)
(***************************************************************************)
OnCell(ids) ==
    /\ ticking
    /\ condition.isExecute
    /\ InProgram
    /\ Cell.id \in ids
    /\ UNCHANGED ticking

(* Skips the empty cells of the line.  A line that is empty to its end, or *)
(* to the end of the program, leads to startIndex.                         *)
empty ==
    /\ OnCell({"empty"})
    /\ LET i == condition.currIndex
           lineEnd == i + LineLength - 1 - (i % LineLength)
           last == IF lineEnd < Len(condition.program) THEN lineEnd
                   ELSE Len(condition.program) - 1
           full == {j \in i..last : condition.program[j + 1].id # "empty"}
       IN \/ /\ full = {}
             /\ condition' = GoTo(condition, condition.startIndex)
          \/ \E j \in full :
                /\ \A k \in full : j <= k
                /\ condition' = GoTo(condition, j)
    /\ UNCHANGED bot

new_line ==
    /\ OnCell({"new_line"})
    /\ condition' = GoTo(condition,
           (condition.currIndex \div LineLength + 1) * LineLength)
    /\ UNCHANGED bot

stub ==
    /\ OnCell(Stubs)
    /\ condition' = Iterate(condition)
    /\ UNCHANGED bot

(* A call resets the frame above, or pushes a new one, and notes its own   *)
(* cell as the place to return to.                                         *)
Enter(frame) ==
    LET depth == condition.stackDepth + 1
        called == [frame EXCEPT !.returnIndex = condition.currIndex]
    IN  [condition EXCEPT
            !.stackDepth = depth,
            !.stack = IF depth = Len(@) THEN Append(@, called)
                      ELSE [@ EXCEPT ![depth + 1] = called],
            !.currIndex = ToIndex(Cell.to)]

GO_SUB ==
    /\ OnCell({"GO_SUB"})
    /\ condition.stackDepth < MaxDepth
    /\ condition' = Enter(ProgramStack)
    /\ UNCHANGED bot

GO_STATE ==
    /\ OnCell({"GO_STATE"})
    /\ condition.stackDepth < MaxDepth
    /\ condition' = Enter(Top)
    /\ UNCHANGED bot

GO_FUNC ==
    /\ OnCell({"GO_FUNC"})
    /\ condition.stackDepth < MaxDepth
    /\ condition' = Enter(IF Top.mode_logic = "off"
                          THEN [ProgramStack EXCEPT !.viewOffset = Top.viewOffset]
                          ELSE [Top EXCEPT !.mode_logic = "none"])
    /\ UNCHANGED bot

look ==
    /\ OnCell(DOMAIN LookAt \cup DOMAIN LookBy \cup DOMAIN LookTurn)
    /\ LET id == Cell.id
           step == IF id \in DOMAIN LookAt THEN Flip(LookAt[id])
                   ELSE IF id \in DOMAIN LookBy THEN Flip(LookBy[id])
                   ELSE Facing(LookTurn[id])
           sets == id \in DOMAIN LookAt \cup {"look_F", "look_L", "look_R"}
           view == IF sets THEN step
                   ELSE <<Top.viewOffset[1] + step[1], Top.viewOffset[2] + step[2]>>
       IN /\ \A k \in 1..2 : view[k] \in -MaxView..MaxView
          /\ condition' = Iterate(SetTop(condition, [Top EXCEPT !.viewOffset = view]))
    /\ UNCHANGED bot

start ==
    /\ OnCell({"start"})
    /\ condition' = Iterate([condition EXCEPT !.startIndex = condition.currIndex])
    /\ UNCHANGED bot

\* Mutant: the program is stopped as it stands.
stopAsIs ==
    /\ OnCell({"stop"})
    /\ condition' = Iterate([condition EXCEPT !.isExecute = FALSE])
    /\ UNCHANGED bot
(* Reset puts the index on the first cell and Execute then moves it on. *)
stop ==
    /\ OnCell({"stop"})
    /\ condition' = Iterate(Reset([condition EXCEPT !.isExecute = FALSE]))
    /\ UNCHANGED bot

GO_TO ==
    /\ OnCell({"GO_TO"})
    /\ condition' = SetTop(GoTo(condition, ToIndex(Cell.to)),
                           [Top EXCEPT !.mode_logic = "off", !.viewOffset = <<0, 0>>])
    /\ UNCHANGED bot

HAND_MODE ==
    /\ OnCell({"HAND_MODE_ON", "HAND_MODE_OFF"})
    /\ condition' = Iterate([condition EXCEPT !.isHandModeActive = Cell.id = "HAND_MODE_ON"])
    /\ UNCHANGED bot

(* IF_TRUE jumps when the condition is NOT met, or none was evaluated. *)
Branch ==
    /\ OnCell({"IF_TRUE", "IF_FALSE"})
    /\ LET met == Top.logicalValue /\ Top.mode_logic # "off"
           done == SetTop(condition, [Top EXCEPT !.mode_logic = "off"])
       IN condition' = IF met = (Cell.id = "IF_FALSE")
                       THEN GoTo(done, ToIndex(Cell.to)) ELSE Iterate(done)
    /\ UNCHANGED bot

(* The cell stays while there is work: it digs, builds or heals once per   *)
(* call, and moves on when nothing is left to do.                          *)
Macro ==
    /\ OnCell(Macros)
    /\ ~bot.cooldown
    /\ \/ condition' = condition /\ Busy(Cell.id # "MACROS_HEAL", bot.rotationIndex)
       \/ condition' = Iterate(condition) /\ Busy(FALSE, bot.rotationIndex)

(* BlockAhead, BlockRight and BlockLeft, as turns from the rotation. *)
LookedAround == {0, 1, 3}

(* Digs the crystals on three sides of the rotation noted at its first     *)
(* call, to which it turns the bot back at the end.                        *)
MACROS_DIGG_AROUND ==
    /\ OnCell({"MACROS_DIGG_AROUND"})
    /\ ~bot.cooldown
    /\ LET home == IF condition.rotate_cache = NoRotation THEN bot.rotationIndex
                   ELSE condition.rotate_cache
       IN \/ /\ condition' = [condition EXCEPT !.rotate_cache = home]
             /\ \E turn \in LookedAround : Busy(TRUE, (home + turn) % 4)
          \/ /\ condition' = Iterate([condition EXCEPT !.rotate_cache = NoRotation])
             /\ Busy(FALSE, home)

Logic ==
    /\ OnCell({"OR", "AND"})
    /\ condition' = Iterate(SetTop(condition,
           [Top EXCEPT !.mode_logic = IF Cell.id = "OR" THEN "or" ELSE "and"]))
    /\ UNCHANGED bot

FLIP ==
    /\ OnCell({"FLIP"})
    /\ condition' = Iterate([condition EXCEPT !.mode_flip = ~@])
    /\ UNCHANGED bot

Mode ==
    /\ OnCell(Modes)
    /\ condition' = Iterate(condition)
    /\ UNCHANGED bot

(* A return takes the place to go on from the frame it leaves; the frame   *)
(* itself stays above the stack.  At depth 0 it only logs an error.        *)
Leave(ids, caller) ==
    /\ OnCell(ids)
    /\ condition' = Iterate(
           IF condition.stackDepth = 0 THEN condition
           ELSE [condition EXCEPT !.currIndex = Top.returnIndex,
                                  !.stackDepth = @ - 1,
                                  !.stack[condition.stackDepth] = caller])
    /\ UNCHANGED bot

Caller == condition.stack[IF condition.stackDepth = 0 THEN 1 ELSE condition.stackDepth]

RETURN ==
    Leave({"RETURN"}, [Caller EXCEPT !.mode_logic = "off", !.viewOffset = <<0, 0>>])

RETURN_FUNK ==
    Leave({"RETURN_FUNK"},
          IF Top.mode_logic = "off" THEN Caller
          ELSE [Caller EXCEPT !.mode_logic = "none", !.logicalValue = Top.logicalValue])

RETURN_STATE ==
    Leave({"RETURN_STATE"}, [Top EXCEPT !.returnIndex = Caller.returnIndex])

(* Variables: a Map from names to values, of which the model keeps whether *)
(* the value is defined (a cell may have no second parameter).             *)
Put(u, name, defined) ==
    [n \in DOMAIN u \cup {name} |-> IF n = name THEN defined ELSE u[n]]
SetValueToVariable(u, name, defined) ==
    IF name \in DOMAIN u THEN Put(u, name, defined) ELSE u
Defined(u, name) == name \in DOMAIN u /\ u[name]

(* SET stores the parameter, the arithmetic stores a number even when an   *)
(* operand is undefined.                                                   *)
PComand(u, l, cell) ==
    IF cell.var \in PComands1
    THEN IF isWriteble(Younger(l))
         THEN SetValueToVariable(u, Younger(l), cell.var # "SET" \/ cell.val) ELSE u
    ELSE IF Younger(l) \notin PComands \cup {None} /\ isWriteble(Older(l))
         THEN SetValueToVariable(u, Older(l), TRUE) ELSE u

(* A value compared with a parameter that is not there differs from it. *)
Compared(value) ==
    condition' = Iterate([SetTop(condition, compareWithLogicValue(Top, value))
                             EXCEPT !.lastVariables = Remember(@, Cell.var)])
Outcomes == IF Cell.val THEN BOOLEAN ELSE {FALSE}

VAR_EQUAL ==
    /\ OnCell({"VAR_EQUAL"})
    /\ LET name == Cell.var
           u == condition.uservariables
       IN \/ /\ name = ""
             /\ condition' = Iterate(condition)
          \/ /\ name \in HasGetter \/ (name \notin PComands /\ Defined(u, name))
             /\ \E value \in Outcomes : Compared(value)
          \/ /\ name \in PComands
             /\ condition' = Iterate([condition EXCEPT
                    !.uservariables = PComand(u, condition.lastVariables, Cell)])
          \/ /\ name \notin HasGetter \cup PComands \cup {""} /\ ~Defined(u, name)
             /\ condition' = Iterate([condition EXCEPT
                    !.uservariables = Put(u, name, Cell.val),
                    !.lastVariables = Remember(@, name)])
    /\ UNCHANGED bot

VAR_COMPARE ==
    /\ OnCell({"VAR_MORE", "VAR_LESS"})
    /\ \/ Cell.var = "" /\ condition' = Iterate(condition)
       \/ /\ Cell.var # ""
          /\ \E value \in Outcomes :
                /\ Cell.var \in HasGetter \/ Defined(condition.uservariables, Cell.var) \/ ~value
                /\ Compared(value)
    /\ UNCHANGED bot

Predicate ==
    /\ OnCell(Predicates)
    /\ \E value \in IF Cell.id = "is_in_gun" THEN {FALSE} ELSE BOOLEAN :
          condition' = Iterate(SetTop(condition, compareWithLogicValue(Top, value)))
    /\ UNCHANGED bot

(* A cell that uses the bot: it waits out a cooldown, then acts once and   *)
(* moves on, whatever came of the action.                                  *)
Action ==
    /\ OnCell(Actions)
    /\ ~bot.cooldown
    /\ LET id == Cell.id
           flipped == condition.mode_flip
           mirror(r) == IF flipped /\ r \in {1, 3} THEN 4 - r ELSE r
           spin == IF flipped = (id = "rotate_CCW") THEN 1 ELSE 3
           rotations == IF id \in DOMAIN Turns THEN {mirror(Turns[id])}
                        ELSE IF id = "rotate_random" THEN 0..3
                        ELSE IF id \in Spins THEN {(bot.rotationIndex + spin) % 4}
                        ELSE {bot.rotationIndex}
       IN /\ \E r \in rotations :
                Busy(id \notin Rotates \cup Spins \cup {"set_block", "heal"}, r)
          /\ condition' = Iterate(
                IF id \in Moves \cup Rotates
                THEN SetTop(condition, [Top EXCEPT !.viewOffset = <<0, 0>>])
                ELSE condition)

(* No cell at the index: the handler throws inside the timer's callback,   *)
(* before ProgTicker sets the next timer.                                  *)
Throw ==
    /\ ticking
    /\ condition.isExecute
    /\ ~InProgram
    /\ ticking' = FALSE
    /\ UNCHANGED <<condition, bot>>

Execute ==
    \/ empty \/ new_line \/ stub \/ GO_SUB \/ GO_STATE \/ GO_FUNC \/ look
    \/ start \/ stop \/ GO_TO \/ HAND_MODE \/ Branch \/ Macro
    \/ MACROS_DIGG_AROUND \/ Logic \/ FLIP \/ Mode \/ RETURN \/ RETURN_FUNK
    \/ RETURN_STATE \/ VAR_EQUAL \/ VAR_COMPARE \/ Predicate \/ Action \/ Throw

----------------------------------------------------------------------------
(***************************************************************************)
(* The keys, the messages of the editor's window, and time.                *)
(***************************************************************************)
KeyR ==
    /\ condition' = IF condition.isExecute
                    THEN Reset([condition EXCEPT !.isExecute = FALSE])
                    ELSE [condition EXCEPT !.isExecute = TRUE]
    /\ UNCHANGED <<bot, ticking>>

(* A running program is replaced without being stopped. *)
setprogram ==
    /\ \E p \in Programs : condition' = Reset([condition EXCEPT !.program = p])
    /\ UNCHANGED <<bot, ticking>>

start_prog ==
    /\ condition' = [Reset(condition) EXCEPT !.isExecute = TRUE]
    /\ UNCHANGED <<bot, ticking>>

stop_prog ==
    /\ condition' = [Reset(condition) EXCEPT !.isExecute = FALSE]
    /\ UNCHANGED <<bot, ticking>>

(* The player turns or uses the bot, which a running program forbids       *)
(* except in hand mode.                                                    *)
UserAct ==
    /\ isManualControlAlloved
    /\ ~bot.cooldown
    /\ \E r \in 0..3 : bot' = [bot EXCEPT !.cooldown = TRUE, !.rotationIndex = r]
    /\ UNCHANGED <<condition, ticking>>

(* performance.now() passes cdTime + cooldown. *)
CooldownEnds ==
    /\ bot.cooldown
    /\ bot' = [bot EXCEPT !.cooldown = FALSE]
    /\ UNCHANGED <<condition, ticking>>

Next ==
    \/ Execute
    \/ KeyR \/ setprogram \/ start_prog \/ stop_prog \/ UserAct
    \/ CooldownEnds

Spec == Init /\ [][Next]_vars

(* The timer fires again and again and a cooldown is a finite time; the    *)
(* player need do nothing.                                                 *)
Fairness == WF_vars(Execute) /\ WF_vars(CooldownEnds)
FairSpec == Spec /\ Fairness

----------------------------------------------------------------------------
(***************************************************************************)
(* Properties.                                                             *)
(***************************************************************************)
TypeOK ==
    /\ condition.program \in Programs
    /\ condition.currIndex \in Nat /\ condition.startIndex \in Nat
    /\ condition.stackDepth \in 0..MaxDepth
    /\ condition.stackDepth < Len(condition.stack)
    /\ \A k \in 1..Len(condition.stack) :
          /\ condition.stack[k].mode_logic \in LogicMode
          /\ condition.stack[k].logicalValue \in BOOLEAN
          /\ condition.stack[k].returnIndex \in Nat \cup {-1}
    /\ condition.rotate_cache \in -1..3
    /\ bot \in [cooldown : BOOLEAN, rotationIndex : 0..3]
    /\ ticking \in BOOLEAN

(* The cells a program may leave a line through.  A program without one of *)
(* these defects never indexes past its end on its own.                    *)
WellFormed(p) ==
    /\ Len(p) % LineLength = 0 \/ p[Len(p)].id = "empty"
    /\ \A i \in 1..Len(p) :
          /\ p[i].id \in Calls \cup {"GO_TO", "IF_TRUE", "IF_FALSE"} => p[i].to < Len(p)
          /\ p[i].id = "new_line" => ((i - 1) \div LineLength + 1) * LineLength < Len(p)

(* The timer that runs the programs of all bots is lost only to a program  *)
(* that is ill-formed, or to the startIndex a previous, longer program     *)
(* left behind: no interleaving of returns, wraps around a line, stops and *)
(* keys takes the index of a well-formed program past its last cell.       *)
TickerOutlivesWellFormed ==
    [][ticking /\ ~ticking' => \/ ~WellFormed(condition.program)
                               \/ condition.startIndex >= Len(condition.program)]_vars

(* Every live frame was entered by a call cell of the program that is      *)
(* loaded now, so a return never lands in a program that was replaced.     *)
CallersAreCalls ==
    \A d \in 1..condition.stackDepth :
        LET r == condition.stack[d + 1].returnIndex
        IN /\ r \in 0..(Len(condition.program) - 1)
           /\ condition.program[r + 1].id \in Calls

(* A call, a return or any other cell leaves the frames below the caller   *)
(* as they are: what a function does to its view cursor and its condition  *)
(* is not seen by the callers of its caller.                               *)
FrameIsolation ==
    [][LET d == condition.stackDepth
           e == condition'.stackDepth
           kept == IF e > d THEN d + 1 ELSE e
       IN \A k \in 1..kept : condition'.stack[k] = condition.stack[k]]_vars

(* However a program was stopped (its own stop cell, the key, the editor), *)
(* what the next start finds is clean: no frames, variables, mirroring,    *)
(* hand mode or half-done macro of the previous run.  The index may be 1:  *)
(* the stop cell moves on after the reset.                                 *)
StoppedIsClean ==
    ~condition.isExecute =>
        /\ condition.stackDepth = 0 /\ condition.stack[1] = ProgramStack
        /\ condition.uservariables = << >>
        /\ ~condition.mode_flip /\ ~condition.isHandModeActive
        /\ condition.rotate_cache = NoRotation
        /\ condition.currIndex \in {0, 1}

(* The rotation MACROS_DIGG_AROUND turns back to is held only while the    *)
(* program stands on that macro, so no later one starts with the rotation  *)
(* of an earlier run.                                                      *)
CacheBelongsToMacro ==
    condition.rotate_cache # NoRotation =>
        condition.isExecute /\ InProgram /\ Cell.id = "MACROS_DIGG_AROUND"

(* Only a VAR_EQUAL cell of the loaded program creates a variable, and     *)
(* never one that shadows a value of the bot or a command, whatever the    *)
(* cache of the last two names still holds from an earlier program.        *)
VarsAreDeclared ==
    \A name \in DOMAIN condition.uservariables :
        /\ name \notin HasGetter \cup PComands
        /\ \E i \in 1..Len(condition.program) :
              /\ condition.program[i].id = "VAR_EQUAL"
              /\ condition.program[i].var = name

(* What a run keeps belongs to the program that is loaded now: frames,     *)
(* variables and a half-done macro never outlive a setprogram or a reset.  *)
RunBelongsToProgram == CallersAreCalls /\ VarsAreDeclared /\ CacheBelongsToMacro

(* A running program that stands on cells that use the bot uses it again   *)
(* and again: the cooldown it waits for ends, and nobody else may start    *)
(* another one, unless hand mode gives the bot to the player.              *)
Waiting ==
    /\ ticking /\ condition.isExecute /\ ~condition.isHandModeActive
    /\ InProgram /\ Cell.id \in Actions
ProgramGetsTheBot == <>[]Waiting => []<><<Action>>_vars
===============================================================================
