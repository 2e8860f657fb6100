-------------------------- MODULE ProgrammatorProofs --------------------------
(***************************************************************************)
(* Proofs about Programmator, for every set of programs, every length of a *)
(* line and every bound on the depth of the stack.                         *)
(***************************************************************************)
EXTENDS Programmator, TLAPS

Views == Int \X Int
Frame == [viewOffset : Views, logicalValue : BOOLEAN, mode_logic : LogicMode,
          returnIndex : Nat \cup {-1}]
Fields == {"program", "isExecute", "isHandModeActive", "startIndex", "currIndex", "rotate_cache",
           "stackDepth", "mode_flip", "uservariables", "lastVariables", "stack"}

\* A ProgramCondition.
Typed(c) ==
    /\ DOMAIN c = Fields
    /\ c.program \in Programs
    /\ c.isExecute \in BOOLEAN /\ c.isHandModeActive \in BOOLEAN /\ c.mode_flip \in BOOLEAN
    /\ c.startIndex \in Nat /\ c.currIndex \in Nat
    /\ c.rotate_cache \in -1..3
    /\ c.stack \in Seq(Frame)
    /\ c.stackDepth \in 0..MaxDepth /\ c.stackDepth < Len(c.stack)

BotType == bot \in [cooldown : BOOLEAN, rotationIndex : 0..3]

\* A return needs the place its call noted, so the types rest on CallersAreCalls.
TypeInv == Typed(condition) /\ BotType /\ ticking \in BOOLEAN /\ CallersAreCalls

\* Where Iterate goes on from cell i.
After(i) == IF i % LineLength = LineLength - 1 THEN i - (LineLength - 1) ELSE i + 1

\* d is c but for its index.
SameRun(c, d) ==
    /\ DOMAIN d = Fields
    /\ d.program = c.program /\ d.isExecute = c.isExecute
    /\ d.isHandModeActive = c.isHandModeActive /\ d.mode_flip = c.mode_flip
    /\ d.startIndex = c.startIndex /\ d.rotate_cache = c.rotate_cache
    /\ d.stack = c.stack /\ d.stackDepth = c.stackDepth
    /\ d.uservariables = c.uservariables /\ d.lastVariables = c.lastVariables
------------------------------------------------------------------------------
\* The last cell of a line is the one before a multiple of the line's length.
LEMMA LineEnd ==
    ASSUME NEW i \in Nat, (i + 1) % LineLength = 0
    PROVE  i % LineLength = LineLength - 1
<1> DEFINE L == LineLength
           q == i \div L
           r == i % L
           k == (i + 1) \div L
<1>1. L \in Nat \ {0}
  BY LineLengthAssumption
<1>2. q \in Int /\ r \in 0..(L - 1) /\ i = L * q + r
  BY <1>1
<1>3. k \in Int /\ i + 1 = L * k
  BY <1>1
<1> HIDE DEF q, r, k, L
<1>4. L * (k - q) = r + 1
  BY <1>1, <1>2, <1>3
<1>5. CASE k - q >= 2
  BY <1>1, <1>2, <1>3, <1>4, <1>5
<1>6. CASE k - q <= 0
  BY <1>1, <1>2, <1>3, <1>4, <1>6
<1>7. CASE k - q = 1
  BY <1>1, <1>2, <1>4, <1>7 DEF L, r
<1> QED
  BY <1>2, <1>3, <1>5, <1>6, <1>7

LEMMA AfterType ==
    ASSUME NEW i \in Nat
    PROVE  After(i) \in Nat
BY LineLengthAssumption DEF After

LEMMA IterateIs ==
    ASSUME NEW c, DOMAIN c = Fields
    PROVE  SameRun(c, Iterate(c)) /\ Iterate(c).currIndex = After(c.currIndex)
BY DEF SameRun, Iterate, After, Fields

LEMMA GoToIs ==
    ASSUME NEW c, NEW i, DOMAIN c = Fields
    PROVE  SameRun(c, GoTo(c, i)) /\ GoTo(c, i).currIndex = i
BY DEF SameRun, GoTo, Fields

\* SetTop and Reset, field by field.
LEMMA SetTopIs ==
    ASSUME NEW c, NEW f, DOMAIN c = Fields
    PROVE  LET d == SetTop(c, f)
           IN /\ DOMAIN d = Fields
              /\ d.program = c.program /\ d.isExecute = c.isExecute
              /\ d.isHandModeActive = c.isHandModeActive /\ d.mode_flip = c.mode_flip
              /\ d.startIndex = c.startIndex /\ d.rotate_cache = c.rotate_cache
              /\ d.stack = [c.stack EXCEPT ![c.stackDepth + 1] = f]
              /\ d.stackDepth = c.stackDepth /\ d.currIndex = c.currIndex
              /\ d.uservariables = c.uservariables /\ d.lastVariables = c.lastVariables
BY DEF SetTop, Fields

LEMMA ResetIs ==
    ASSUME NEW c, DOMAIN c = Fields
    PROVE  /\ DOMAIN Reset(c) = Fields
           /\ Reset(c).program = c.program /\ Reset(c).isExecute = c.isExecute
           /\ Reset(c).startIndex = c.startIndex
           /\ Reset(c).stack = [c.stack EXCEPT ![1] = ProgramStack]
           /\ Reset(c).uservariables = << >> /\ Reset(c).stackDepth = 0
           /\ Reset(c).currIndex = 0 /\ Reset(c).mode_flip = FALSE
           /\ Reset(c).rotate_cache = NoRotation /\ Reset(c).isHandModeActive = FALSE
BY DEF Reset, Fields

LEMMA NewFrame == ProgramStack \in Frame
BY DEF ProgramStack, Frame, LogicMode, Views

LEMMA ClearedFrame ==
    ASSUME NEW f \in Frame
    PROVE  /\ [f EXCEPT !.mode_logic = "off", !.viewOffset = <<0, 0>>] \in Frame
           /\ [f EXCEPT !.mode_logic = "off", !.viewOffset = <<0, 0>>].returnIndex = f.returnIndex
<1> DEFINE v == <<0, 0>>
<1>1. v \in Views /\ "off" \in LogicMode
  BY DEF Views, LogicMode
<1> HIDE DEF v
<1>2. /\ [f EXCEPT !.mode_logic = "off", !.viewOffset = v] \in Frame
      /\ [f EXCEPT !.mode_logic = "off", !.viewOffset = v].returnIndex = f.returnIndex
  BY <1>1 DEF Frame
<1> QED
  BY <1>2 DEF v

LEMMA ProgramType ==
    ASSUME NEW p \in Programs
    PROVE  /\ p \in Seq([id : STRING, to : Int, var : STRING, val : BOOLEAN])
           /\ Len(p) \in Nat \ {0}
BY ProgramsAssumption
------------------------------------------------------------------------------
(***************************************************************************)
(* What the handler of a cell does to the condition, field by field.  The  *)
(* invariants are proved from these effects, not from the handlers.        *)
(***************************************************************************)
FramesKept ==
    /\ condition'.stack = condition.stack
    /\ condition'.stackDepth = condition.stackDepth

\* The handler writes the frame it runs in.
TopWritten ==
    /\ condition'.stackDepth = condition.stackDepth
    /\ \E f \in Frame :
          /\ f.returnIndex = Top.returnIndex
          /\ condition'.stack = [condition.stack EXCEPT ![condition.stackDepth + 1] = f]

Entered ==
    /\ Cell.id \in Calls
    /\ condition.stackDepth < MaxDepth
    /\ condition'.stackDepth = condition.stackDepth + 1
    /\ \E f \in Frame :
          /\ f.returnIndex = condition.currIndex
          /\ condition'.stack =
                 IF condition.stackDepth + 1 = Len(condition.stack)
                 THEN Append(condition.stack, f)
                 ELSE [condition.stack EXCEPT ![condition.stackDepth + 2] = f]

\* A return writes its caller's frame.
Left ==
    /\ condition.stackDepth > 0
    /\ condition'.stackDepth = condition.stackDepth - 1
    /\ \E f \in Frame :
          /\ f.returnIndex = condition.stack[condition.stackDepth].returnIndex
          /\ condition'.stack = [condition.stack EXCEPT ![condition.stackDepth] = f]

\* Where the index goes.
Jumps == Calls \cup {"GO_TO", "IF_TRUE", "IF_FALSE"}
IndexMoved ==
    \/ condition'.currIndex = After(condition.currIndex) /\ Cell.id # "empty"
    \/ condition'.currIndex = ToIndex(Cell.to) /\ Cell.id \in Jumps
    \/ /\ condition'.currIndex = (condition.currIndex \div LineLength + 1) * LineLength
       /\ Cell.id = "new_line"
    \/ /\ condition'.currIndex \in {condition.startIndex} \cup 0..(Len(condition.program) - 1)
       /\ Cell.id # "start"
    \/ condition'.currIndex = After(Top.returnIndex) /\ Left

VariablesKept ==
    \A n \in DOMAIN condition'.uservariables :
        \/ n \in DOMAIN condition.uservariables
        \/ Cell.id = "VAR_EQUAL" /\ Cell.var = n /\ n \notin HasGetter \cup PComands

CacheKept ==
    \/ /\ condition'.rotate_cache = condition.rotate_cache
       /\ Cell.id # "MACROS_DIGG_AROUND" \/ condition'.currIndex = condition.currIndex
    \/ condition'.rotate_cache = NoRotation
    \/ /\ Cell.id = "MACROS_DIGG_AROUND" /\ condition'.currIndex = condition.currIndex
       /\ condition'.rotate_cache \in 0..3

CellRuns ==
    /\ condition.isExecute /\ InProgram
    /\ DOMAIN condition' = Fields
    /\ condition'.program = condition.program /\ condition'.isExecute = condition.isExecute
    /\ condition'.isHandModeActive \in BOOLEAN /\ condition'.mode_flip \in BOOLEAN
    /\ \/ condition'.startIndex = condition.startIndex
       \/ condition'.startIndex = condition.currIndex /\ Cell.id = "start"
    /\ FramesKept \/ TopWritten \/ Entered \/ Left
    /\ IndexMoved
    /\ VariablesKept
    /\ CacheKept

\* What most handlers do before they move on: they change one field of the run.
Prepared(c) ==
    /\ DOMAIN c = Fields
    /\ c.program = condition.program /\ c.isExecute = condition.isExecute
    /\ c.currIndex = condition.currIndex /\ c.rotate_cache = condition.rotate_cache
    /\ c.isHandModeActive \in BOOLEAN /\ c.mode_flip \in BOOLEAN
    /\ \/ c.startIndex = condition.startIndex
       \/ c.startIndex = condition.currIndex /\ Cell.id = "start"
    /\ c.stackDepth = condition.stackDepth
    /\ \/ c.stack = condition.stack
       \/ \E f \in Frame :
             /\ f.returnIndex = Top.returnIndex
             /\ c.stack = [condition.stack EXCEPT ![condition.stackDepth + 1] = f]
    /\ \A n \in DOMAIN c.uservariables :
          \/ n \in DOMAIN condition.uservariables
          \/ Cell.id = "VAR_EQUAL" /\ Cell.var = n /\ n \notin HasGetter \cup PComands

LEMMA MovesOn ==
    ASSUME NEW c, Prepared(c), OnCell(STRING \ {"empty", "MACROS_DIGG_AROUND"}),
           condition' = Iterate(c)
    PROVE  CellRuns
<1>1. DOMAIN c = Fields
  BY DEF Prepared
<1>2. SameRun(c, condition') /\ condition'.currIndex = After(c.currIndex)
  BY <1>1, IterateIs
<1>3. condition.isExecute /\ InProgram /\ Cell.id \notin {"empty", "MACROS_DIGG_AROUND"}
  BY DEF OnCell
<1>4. FramesKept \/ TopWritten
  BY <1>2 DEF SameRun, Prepared, FramesKept, TopWritten
<1>5. VariablesKept
  BY <1>2 DEF SameRun, Prepared, VariablesKept
<1>6. IndexMoved /\ CacheKept
  BY <1>2, <1>3 DEF SameRun, Prepared, IndexMoved, CacheKept
<1> QED
  BY <1>2, <1>3, <1>4, <1>5, <1>6 DEF SameRun, CellRuns, Prepared

\* The condition as it is, and with its top frame written.
LEMMA NothingToPrepare ==
    ASSUME Typed(condition)
    PROVE  Prepared(condition)
BY DEF Typed, Prepared

LEMMA WriteTop ==
    ASSUME Typed(condition), NEW f \in Frame, f.returnIndex = Top.returnIndex
    PROVE  Prepared(SetTop(condition, f))
<1> DEFINE d == SetTop(condition, f)
<1>1. /\ DOMAIN d = Fields
      /\ d.program = condition.program /\ d.isExecute = condition.isExecute
      /\ d.isHandModeActive = condition.isHandModeActive /\ d.mode_flip = condition.mode_flip
      /\ d.startIndex = condition.startIndex /\ d.rotate_cache = condition.rotate_cache
      /\ d.stack = [condition.stack EXCEPT ![condition.stackDepth + 1] = f]
      /\ d.stackDepth = condition.stackDepth /\ d.currIndex = condition.currIndex
      /\ d.uservariables = condition.uservariables /\ d.lastVariables = condition.lastVariables
  BY SetTopIs DEF Typed
<1> HIDE DEF d
<1>2. Prepared(d)
  BY <1>1 DEF Typed, Prepared
<1> QED
  BY <1>2 DEF d

LEMMA TopType ==
    ASSUME Typed(condition)
    PROVE  Top \in Frame
BY DEF Typed, Top

LEMMA CellType ==
    ASSUME Typed(condition), InProgram
    PROVE  Cell \in [id : STRING, to : Int, var : STRING, val : BOOLEAN]
<1> DEFINE CellSet == [id : STRING, to : Int, var : STRING, val : BOOLEAN]
<1>1. condition.program \in Seq(CellSet) /\ condition.currIndex \in Nat
  BY ProgramType DEF Typed
<1> HIDE DEF CellSet
<1>2. condition.currIndex + 1 \in 1..Len(condition.program)
  BY <1>1 DEF InProgram
<1>3. Cell \in CellSet
  BY <1>1, <1>2 DEF Cell
<1> QED
  BY <1>3 DEF CellSet

\* Handlers that change at most one field that is not a frame.
LEMMA SimpleHandlers ==
    ASSUME Typed(condition),
           \/ stub \/ start \/ HAND_MODE \/ FLIP \/ Mode
           \/ Macro \/ Action
    PROVE  CellRuns \/ condition' = condition
<1>1. CASE stub \/ Mode
  <2>1. OnCell(STRING \ {"empty", "MACROS_DIGG_AROUND"}) /\ condition' = Iterate(condition)
    BY <1>1, CellType DEF stub, Mode, OnCell, Stubs, Modes, Inventory
  <2> QED
    BY <2>1, NothingToPrepare, MovesOn
<1>2. CASE start
  <2> DEFINE c == [condition EXCEPT !.startIndex = condition.currIndex]
  <2>1. OnCell(STRING \ {"empty", "MACROS_DIGG_AROUND"}) /\ condition' = Iterate(c)
    BY <1>2, CellType DEF start, OnCell
  <2>2. Prepared(c)
    BY <1>2 DEF start, OnCell, Typed, Prepared, Fields
  <2> HIDE DEF c
  <2> QED
    BY <2>1, <2>2, MovesOn
<1>3. CASE HAND_MODE
  <2> DEFINE b == (Cell.id = "HAND_MODE_ON")
             c == [condition EXCEPT !.isHandModeActive = b]
  <2>1. OnCell(STRING \ {"empty", "MACROS_DIGG_AROUND"})
    BY <1>3, CellType DEF HAND_MODE, OnCell
  <2>2. condition' = Iterate(c)
    BY <1>3, Zenon DEF HAND_MODE
  <2>3. b \in BOOLEAN
    OBVIOUS
  <2> HIDE DEF b
  <2>4. Prepared(c)
    BY <2>3 DEF Typed, Prepared, Fields
  <2> HIDE DEF c
  <2> QED
    BY <2>1, <2>2, <2>4, MovesOn
<1>4. CASE FLIP
  <2> DEFINE c == [condition EXCEPT !.mode_flip = ~@]
  <2>1. OnCell(STRING \ {"empty", "MACROS_DIGG_AROUND"}) /\ condition' = Iterate(c)
    BY <1>4, CellType DEF FLIP, OnCell
  <2>2. Prepared(c)
    BY DEF Typed, Prepared, Fields
  <2> HIDE DEF c
  <2> QED
    BY <2>1, <2>2, MovesOn
<1>5. CASE Macro
  <2>1. OnCell(STRING \ {"empty", "MACROS_DIGG_AROUND"})
    BY <1>5, CellType DEF Macro, OnCell, Macros
  <2>2. condition' = condition \/ condition' = Iterate(condition)
    BY <1>5 DEF Macro
  <2> QED
    BY <2>1, <2>2, NothingToPrepare, MovesOn
<1>6. CASE Action
  <2> DEFINE f == [Top EXCEPT !.viewOffset = <<0, 0>>]
  <2>1. OnCell(STRING \ {"empty", "MACROS_DIGG_AROUND"})
    BY <1>6, CellType DEF Action, OnCell, Actions, Moves, Rotates, Spins, Uses
  <2>2. condition' = Iterate(SetTop(condition, f)) \/ condition' = Iterate(condition)
    BY <1>6 DEF Action
  <2>3. f \in Frame /\ f.returnIndex = Top.returnIndex
    BY TopType DEF Frame, Views
  <2> HIDE DEF f
  <2> QED
    BY <2>1, <2>2, <2>3, NothingToPrepare, WriteTop, MovesOn
<1> QED
  BY <1>1, <1>2, <1>3, <1>4, <1>5, <1>6

LEMMA LookTables ==
    /\ LookAt \in [DOMAIN LookAt -> Views]
    /\ LookBy \in [DOMAIN LookBy -> Views]
    /\ LookTurn \in [DOMAIN LookTurn -> 0..3]
<1>1. LookAt \in [DOMAIN LookAt -> Views]
  BY DEF LookAt, Views
<1>2. LookBy \in [DOMAIN LookBy -> Views]
  BY DEF LookBy, Views
<1>3. LookTurn \in [DOMAIN LookTurn -> 0..3]
  BY DEF LookTurn
<1> QED
  BY <1>1, <1>2, <1>3

LEMMA FlipType ==
    ASSUME NEW v \in Views
    PROVE  Flip(v) \in Views
BY DEF Flip, Views

LEMMA FacingType ==
    ASSUME BotType, NEW turn \in 0..3
    PROVE  Facing(turn) \in Views
<1> DEFINE k == ((bot.rotationIndex + turn) % 4) + 1
<1>1. k \in 1..4
  BY DEF BotType
<1> HIDE DEF k
<1>2. <<<<0, -1>>, <<1, 0>>, <<0, 1>>, <<-1, 0>>>>[k] \in Views
  BY <1>1 DEF Views
<1> QED
  BY <1>2 DEF Facing, k

LEMMA ComparedFrame ==
    ASSUME NEW f \in Frame, NEW value \in BOOLEAN
    PROVE  /\ compareWithLogicValue(f, value) \in Frame
           /\ compareWithLogicValue(f, value).returnIndex = f.returnIndex
<1> DEFINE b == CASE f.mode_logic = "or"  -> f.logicalValue \/ value
                  [] f.mode_logic = "and" -> f.logicalValue /\ value
                  [] OTHER                -> value
           m == IF f.mode_logic = "off" THEN "none" ELSE f.mode_logic
<1>1. b \in BOOLEAN
  <2>1. f.logicalValue \in BOOLEAN
    BY DEF Frame
  <2> QED
    BY <2>1
<1>2. m \in LogicMode
  BY DEF Frame, LogicMode
<1>3. compareWithLogicValue(f, value) = [f EXCEPT !.logicalValue = b, !.mode_logic = m]
  BY Zenon DEF compareWithLogicValue
<1> HIDE DEF b, m
<1> QED
  BY <1>1, <1>2, <1>3 DEF Frame

\* Handlers that write the frame they run in.
LEMMA FrameHandlers ==
    ASSUME Typed(condition), BotType, look \/ Logic \/ Predicate
    PROVE  CellRuns
<1>1. CASE look
  <2>1. PICK f : f \in Frame /\ f.returnIndex = Top.returnIndex
                 /\ condition' = Iterate(SetTop(condition, f))
    <3> DEFINE id == Cell.id
               step == IF id \in DOMAIN LookAt THEN Flip(LookAt[id])
                       ELSE IF id \in DOMAIN LookBy THEN Flip(LookBy[id])
                       ELSE Facing(LookTurn[id])
               view == IF id \in DOMAIN LookAt \cup {"look_F", "look_L", "look_R"} THEN step
                       ELSE <<Top.viewOffset[1] + step[1], Top.viewOffset[2] + step[2]>>
               f == [Top EXCEPT !.viewOffset = view]
    <3>1. id \in DOMAIN LookAt \cup DOMAIN LookBy \cup DOMAIN LookTurn
      BY <1>1 DEF look, OnCell
    <3>2. condition' = Iterate(SetTop(condition, f))
      BY <1>1, Zenon DEF look
    <3>3. step \in Views
      BY <3>1, LookTables, FlipType, FacingType
    <3> HIDE DEF step
    <3>4. view \in Views
      BY <3>3, TopType DEF Views, Frame
    <3> HIDE DEF view
    <3>5. f \in Frame /\ f.returnIndex = Top.returnIndex
      BY <3>4, TopType DEF Frame
    <3> QED
      BY <3>2, <3>5
  <2>2. OnCell(STRING \ {"empty", "MACROS_DIGG_AROUND"})
    <3>1. Cell.id \in DOMAIN LookAt \cup DOMAIN LookBy \cup DOMAIN LookTurn
      BY <1>1 DEF look, OnCell
    <3>2. Cell.id \notin {"empty", "MACROS_DIGG_AROUND"}
      BY <3>1 DEF LookAt, LookBy, LookTurn
    <3> QED
      BY <1>1, <3>2, CellType DEF look, OnCell
  <2> QED
    BY <2>1, <2>2, WriteTop, MovesOn
<1>2. CASE Logic
  <2> DEFINE m == IF Cell.id = "OR" THEN "or" ELSE "and"
             f == [Top EXCEPT !.mode_logic = m]
  <2>1. OnCell(STRING \ {"empty", "MACROS_DIGG_AROUND"})
    BY <1>2, CellType DEF Logic, OnCell
  <2>2. condition' = Iterate(SetTop(condition, f))
    BY <1>2 DEF Logic
  <2>3. m \in LogicMode
    BY DEF LogicMode
  <2> HIDE DEF m
  <2>4. f \in Frame /\ f.returnIndex = Top.returnIndex
    BY <2>3, TopType DEF Frame
  <2> HIDE DEF f
  <2> QED
    BY <2>1, <2>2, <2>4, WriteTop, MovesOn
<1>3. CASE Predicate
  <2>1. OnCell(STRING \ {"empty", "MACROS_DIGG_AROUND"})
    BY <1>3, CellType DEF Predicate, OnCell, Predicates
  <2>2. PICK value \in BOOLEAN :
            condition' = Iterate(SetTop(condition, compareWithLogicValue(Top, value)))
    BY <1>3 DEF Predicate
  <2> QED
    BY <2>1, <2>2, TopType, ComparedFrame, WriteTop, MovesOn
<1> QED
  BY <1>1, <1>2, <1>3

\* A comparison writes the frame and notes the name.
LEMMA ComparesHandler ==
    ASSUME Typed(condition), OnCell({"VAR_EQUAL", "VAR_MORE", "VAR_LESS"}),
           NEW value \in BOOLEAN, Compared(value)
    PROVE  CellRuns
<1> DEFINE d == SetTop(condition, compareWithLogicValue(Top, value))
           c == [d EXCEPT !.lastVariables = Remember(@, Cell.var)]
<1>1. condition' = Iterate(c)
  BY DEF Compared
<1>2. Prepared(d)
  BY TopType, ComparedFrame, WriteTop
<1> HIDE DEF d
<1>3. /\ DOMAIN c = Fields
      /\ c.program = d.program /\ c.isExecute = d.isExecute
      /\ c.isHandModeActive = d.isHandModeActive /\ c.mode_flip = d.mode_flip
      /\ c.startIndex = d.startIndex /\ c.rotate_cache = d.rotate_cache
      /\ c.stack = d.stack /\ c.stackDepth = d.stackDepth /\ c.currIndex = d.currIndex
      /\ c.uservariables = d.uservariables
  BY <1>2 DEF Prepared, Fields
<1> HIDE DEF c
<1>4. Prepared(c)
  BY <1>2, <1>3 DEF Prepared
<1>5. OnCell(STRING \ {"empty", "MACROS_DIGG_AROUND"})
  BY CellType DEF OnCell
<1> QED
  BY <1>1, <1>4, <1>5, MovesOn

LEMMA PComandKeeps ==
    ASSUME NEW u, NEW l, NEW cell
    PROVE  DOMAIN PComand(u, l, cell) = DOMAIN u
BY DEF PComand, SetValueToVariable, Put

LEMMA VariableHandlers ==
    ASSUME Typed(condition), VAR_EQUAL \/ VAR_COMPARE
    PROVE  CellRuns
<1>1. OnCell(STRING \ {"empty", "MACROS_DIGG_AROUND"})
  BY CellType DEF VAR_EQUAL, VAR_COMPARE, OnCell
<1>2. CASE condition' = Iterate(condition)
  BY <1>1, <1>2, NothingToPrepare, MovesOn
<1>3. ASSUME NEW value \in BOOLEAN, Compared(value) PROVE CellRuns
  BY <1>3, ComparesHandler DEF VAR_EQUAL, VAR_COMPARE, OnCell
<1>4. Outcomes \subseteq BOOLEAN
  BY DEF Outcomes
<1>5. CASE VAR_COMPARE
  BY <1>2, <1>3, <1>4, <1>5 DEF VAR_COMPARE
<1>6. CASE VAR_EQUAL
  <2> DEFINE u == condition.uservariables
             p == PComand(u, condition.lastVariables, Cell)
             c1 == [condition EXCEPT !.uservariables = p]
             c2 == [condition EXCEPT !.uservariables = Put(u, Cell.var, Cell.val),
                                     !.lastVariables = Remember(@, Cell.var)]
  <2>1. \/ condition' = Iterate(condition)
        \/ \E value \in Outcomes : Compared(value)
        \/ condition' = Iterate(c1)
        \/ /\ condition' = Iterate(c2)
           /\ Cell.var \notin HasGetter \cup PComands
    BY <1>6 DEF VAR_EQUAL
  <2>2. Cell.id = "VAR_EQUAL"
    BY <1>6 DEF VAR_EQUAL, OnCell
  <2>3. DOMAIN p = DOMAIN u
    BY PComandKeeps
  <2>4. Prepared(c1)
    <3> HIDE DEF p
    <3> QED BY <2>3 DEF Typed, Prepared, Fields
  <2>5. ASSUME Cell.var \notin HasGetter \cup PComands PROVE Prepared(c2)
    <3> DEFINE w == Put(u, Cell.var, Cell.val)
               l == Remember(condition.lastVariables, Cell.var)
    <3>1. DOMAIN w = DOMAIN u \cup {Cell.var}
      BY DEF Put
    <3>2. c2 = [condition EXCEPT !.uservariables = w, !.lastVariables = l]
      OBVIOUS
    <3> HIDE DEF w, l, c2
    <3> QED BY <2>2, <2>5, <3>1, <3>2 DEF Typed, Prepared, Fields
  <2> HIDE DEF c1, c2
  <2> QED
    BY <1>1, <1>2, <1>3, <1>4, <2>1, <2>4, <2>5, MovesOn
<1> QED
  BY <1>5, <1>6

\* Handlers that set the index themselves.
LEMMA JumpHandlers ==
    ASSUME Typed(condition), empty \/ new_line \/ GO_TO \/ Branch
    PROVE  CellRuns
<1>1. CASE empty \/ new_line
  <2>1. PICK j : /\ condition' = GoTo(condition, j)
                 /\ \/ j \in {condition.startIndex} \cup 0..(Len(condition.program) - 1)
                    \/ /\ j = (condition.currIndex \div LineLength + 1) * LineLength
                       /\ Cell.id = "new_line"
    <3>1. CASE new_line
      BY <3>1 DEF new_line, OnCell
    <3>2. CASE empty
      <4> DEFINE i == condition.currIndex
                 lineEnd == i + LineLength - 1 - (i % LineLength)
                 last == IF lineEnd < Len(condition.program) THEN lineEnd
                         ELSE Len(condition.program) - 1
                 full == {j \in i..last : condition.program[j + 1].id # "empty"}
      <4>1. \/ condition' = GoTo(condition, condition.startIndex)
            \/ \E j \in full : condition' = GoTo(condition, j)
        BY <3>2 DEF empty
      <4>2. i \in Nat /\ lineEnd \in Int /\ Len(condition.program) \in Nat
        BY ProgramType, LineLengthAssumption DEF Typed
      <4> HIDE DEF i, lineEnd
      <4>3. full \subseteq 0..(Len(condition.program) - 1)
        BY <4>2
      <4> QED
        BY <4>1, <4>3
    <3> QED
      BY <1>1, <3>1, <3>2
  <2>2. SameRun(condition, condition') /\ condition'.currIndex = j
    BY <2>1, GoToIs DEF Typed
  <2>3. condition.isExecute /\ InProgram /\ Cell.id \in {"empty", "new_line"}
    BY <1>1 DEF empty, new_line, OnCell
  <2> QED
    BY <2>1, <2>2, <2>3 DEF SameRun, Typed, CellRuns, FramesKept, IndexMoved, VariablesKept, CacheKept
<1>2. CASE GO_TO
  <2> DEFINE g == GoTo(condition, ToIndex(Cell.to))
             f == [Top EXCEPT !.mode_logic = "off", !.viewOffset = <<0, 0>>]
  <2>1. condition' = SetTop(g, f)
    BY <1>2 DEF GO_TO
  <2>2. condition.isExecute /\ InProgram /\ Cell.id = "GO_TO"
    BY <1>2 DEF GO_TO, OnCell
  <2>3. SameRun(condition, g) /\ g.currIndex = ToIndex(Cell.to)
    BY GoToIs DEF Typed
  <2>4. f \in Frame /\ f.returnIndex = Top.returnIndex
    BY TopType, ClearedFrame
  <2> HIDE DEF g, f
  <2>5. DOMAIN g = Fields
    BY <2>3 DEF SameRun
  <2>6. /\ DOMAIN condition' = Fields
        /\ condition'.program = g.program /\ condition'.isExecute = g.isExecute
        /\ condition'.isHandModeActive = g.isHandModeActive /\ condition'.mode_flip = g.mode_flip
        /\ condition'.startIndex = g.startIndex /\ condition'.rotate_cache = g.rotate_cache
        /\ condition'.stack = [g.stack EXCEPT ![g.stackDepth + 1] = f]
        /\ condition'.stackDepth = g.stackDepth /\ condition'.currIndex = g.currIndex
        /\ condition'.uservariables = g.uservariables
    BY <2>1, <2>5, SetTopIs
  <2>7. TopWritten
    BY <2>3, <2>4, <2>6 DEF SameRun, TopWritten
  <2> QED
    BY <2>2, <2>3, <2>6, <2>7
    DEF SameRun, Typed, CellRuns, IndexMoved, VariablesKept, CacheKept, Jumps
<1>3. CASE Branch
  <2> DEFINE f == [Top EXCEPT !.mode_logic = "off"]
             done == SetTop(condition, f)
  <2>1. condition' = GoTo(done, ToIndex(Cell.to)) \/ condition' = Iterate(done)
    BY <1>3 DEF Branch
  <2>2. OnCell(STRING \ {"empty", "MACROS_DIGG_AROUND"}) /\ Cell.id \in {"IF_TRUE", "IF_FALSE"}
    BY <1>3, CellType DEF Branch, OnCell
  <2>3. f \in Frame /\ f.returnIndex = Top.returnIndex
    BY TopType DEF Frame, LogicMode
  <2> HIDE DEF f
  <2>4. Prepared(done)
    BY <2>3, WriteTop
  <2> HIDE DEF done
  <2>5. CASE condition' = Iterate(done)
    BY <2>2, <2>4, <2>5, MovesOn
  <2>6. CASE condition' = GoTo(done, ToIndex(Cell.to))
    <3>1. DOMAIN done = Fields
      BY <2>4 DEF Prepared
    <3>2. SameRun(done, condition') /\ condition'.currIndex = ToIndex(Cell.to)
      BY <2>6, <3>1, GoToIs
    <3>3. FramesKept \/ TopWritten
      BY <2>4, <3>2 DEF SameRun, Prepared, FramesKept, TopWritten
    <3>4. VariablesKept
      BY <2>4, <3>2 DEF SameRun, Prepared, VariablesKept
    <3>5. IndexMoved /\ CacheKept
      BY <2>2, <2>4, <3>2 DEF SameRun, Prepared, IndexMoved, Jumps, CacheKept
    <3> QED
      BY <2>2, <2>4, <3>2, <3>3, <3>4, <3>5 DEF SameRun, CellRuns, Prepared, OnCell
  <2> QED
    BY <2>1, <2>5, <2>6
<1> QED
  BY <1>1, <1>2, <1>3

LEMMA EnterIs ==
    ASSUME Typed(condition), NEW frame \in Frame, OnCell(Calls),
           condition.stackDepth < MaxDepth, condition' = Enter(frame)
    PROVE  CellRuns
<1> DEFINE depth == condition.stackDepth + 1
           called == [frame EXCEPT !.returnIndex = condition.currIndex]
           stack2 == IF depth = Len(condition.stack) THEN Append(condition.stack, called)
                     ELSE [condition.stack EXCEPT ![depth + 1] = called]
           to == ToIndex(Cell.to)
<1>1. condition' = [condition EXCEPT !.stackDepth = depth, !.stack = stack2, !.currIndex = to]
  BY Zenon DEF Enter
<1>2. called \in Frame /\ called.returnIndex = condition.currIndex
  BY DEF Frame, Typed
<1>3. depth + 1 = condition.stackDepth + 2 /\ depth = condition.stackDepth + 1
  BY DEF Typed
<1>4. stack2 = IF condition.stackDepth + 1 = Len(condition.stack) THEN Append(condition.stack, called)
               ELSE [condition.stack EXCEPT ![condition.stackDepth + 2] = called]
  BY <1>3
<1> HIDE DEF depth, called, stack2, to
<1>5. /\ DOMAIN condition' = Fields
      /\ condition'.program = condition.program /\ condition'.isExecute = condition.isExecute
      /\ condition'.isHandModeActive = condition.isHandModeActive
      /\ condition'.mode_flip = condition.mode_flip
      /\ condition'.startIndex = condition.startIndex
      /\ condition'.rotate_cache = condition.rotate_cache
      /\ condition'.stack = stack2 /\ condition'.stackDepth = depth /\ condition'.currIndex = to
      /\ condition'.uservariables = condition.uservariables
  BY <1>1 DEF Typed, Fields
<1>6. condition.isExecute /\ InProgram /\ Cell.id \in Calls
  BY DEF OnCell
<1>7. Entered
  BY <1>2, <1>3, <1>4, <1>5, <1>6 DEF Entered
<1>8. IndexMoved /\ CacheKept /\ VariablesKept
  BY <1>5, <1>6 DEF IndexMoved, CacheKept, VariablesKept, Jumps, Calls, to
<1> QED
  BY <1>5, <1>6, <1>7, <1>8 DEF CellRuns, Typed

LEMMA CallHandlers ==
    ASSUME Typed(condition), GO_SUB \/ GO_STATE \/ GO_FUNC
    PROVE  CellRuns
<1>1. OnCell(Calls) /\ condition.stackDepth < MaxDepth
  BY DEF GO_SUB, GO_STATE, GO_FUNC, OnCell, Calls
<1>2. CASE GO_SUB \/ GO_STATE
  BY <1>1, <1>2, NewFrame, TopType, EnterIs DEF GO_SUB, GO_STATE
<1>3. CASE GO_FUNC
  <2> DEFINE f == IF Top.mode_logic = "off" THEN [ProgramStack EXCEPT !.viewOffset = Top.viewOffset]
                  ELSE [Top EXCEPT !.mode_logic = "none"]
  <2>1. condition' = Enter(f)
    BY <1>3 DEF GO_FUNC
  <2>2. f \in Frame
    BY NewFrame, TopType DEF Frame, LogicMode
  <2> HIDE DEF f
  <2> QED
    BY <1>1, <2>1, <2>2, EnterIs
<1> QED
  BY <1>2, <1>3

LEMMA LeaveIs ==
    ASSUME Typed(condition), NEW ids, ids \subseteq {"RETURN", "RETURN_FUNK", "RETURN_STATE"},
           NEW f \in Frame, f.returnIndex = Caller.returnIndex, Leave(ids, f)
    PROVE  CellRuns
<1>1. OnCell(STRING \ {"empty", "MACROS_DIGG_AROUND"})
  BY CellType DEF Leave, OnCell
<1>2. CASE condition.stackDepth = 0
  BY <1>1, <1>2, NothingToPrepare, MovesOn DEF Leave
<1>3. CASE condition.stackDepth # 0
  <2> DEFINE c == [condition EXCEPT !.currIndex = Top.returnIndex,
                                    !.stackDepth = @ - 1,
                                    !.stack[condition.stackDepth] = f]
             depth == condition.stackDepth - 1
             stack2 == [condition.stack EXCEPT ![condition.stackDepth] = f]
             r == Top.returnIndex
  <2>1. condition' = Iterate(c)
    BY <1>3 DEF Leave
  <2>2. c = [condition EXCEPT !.currIndex = r, !.stackDepth = depth, !.stack = stack2]
    BY DEF Typed, Fields
  <2> HIDE DEF c, depth, stack2, r
  <2>3. /\ DOMAIN c = Fields
        /\ c.program = condition.program /\ c.isExecute = condition.isExecute
        /\ c.isHandModeActive = condition.isHandModeActive /\ c.mode_flip = condition.mode_flip
        /\ c.startIndex = condition.startIndex /\ c.rotate_cache = condition.rotate_cache
        /\ c.stack = stack2 /\ c.stackDepth = depth /\ c.currIndex = r
        /\ c.uservariables = condition.uservariables
    BY <2>2 DEF Typed, Fields
  <2>4. SameRun(c, condition') /\ condition'.currIndex = After(c.currIndex)
    BY <2>1, <2>3, IterateIs
  <2>5. condition.stackDepth > 0 /\ Caller = condition.stack[condition.stackDepth]
    BY <1>3 DEF Typed, Caller
  <2>6. Left
    BY <2>3, <2>4, <2>5 DEF Left, SameRun, depth, stack2
  <2>7. condition.isExecute /\ InProgram /\ Cell.id \notin {"empty", "MACROS_DIGG_AROUND"}
    BY <1>1 DEF OnCell
  <2>8. IndexMoved /\ CacheKept /\ VariablesKept
    BY <2>3, <2>4, <2>6, <2>7 DEF IndexMoved, CacheKept, VariablesKept, SameRun, r
  <2> QED
    BY <2>3, <2>4, <2>6, <2>7, <2>8 DEF CellRuns, SameRun, Typed
<1> QED
  BY <1>2, <1>3

LEMMA ReturnHandlers ==
    ASSUME Typed(condition), RETURN \/ RETURN_FUNK \/ RETURN_STATE
    PROVE  CellRuns
<1>1. Caller \in Frame /\ Top \in Frame
  BY TopType DEF Typed, Caller
<1>2. CASE RETURN
  <2> DEFINE f == [Caller EXCEPT !.mode_logic = "off", !.viewOffset = <<0, 0>>]
  <2>1. f \in Frame /\ f.returnIndex = Caller.returnIndex
    BY <1>1, ClearedFrame
  <2>2. Leave({"RETURN"}, f)
    BY <1>2 DEF RETURN
  <2> HIDE DEF f
  <2> QED
    BY <2>1, <2>2, LeaveIs
<1>3. CASE RETURN_FUNK
  <2> DEFINE f == IF Top.mode_logic = "off" THEN Caller
                  ELSE [Caller EXCEPT !.mode_logic = "none", !.logicalValue = Top.logicalValue]
  <2>1. f \in Frame /\ f.returnIndex = Caller.returnIndex
    BY <1>1 DEF Frame, LogicMode
  <2>2. Leave({"RETURN_FUNK"}, f)
    BY <1>3 DEF RETURN_FUNK
  <2> HIDE DEF f
  <2> QED
    BY <2>1, <2>2, LeaveIs
<1>4. CASE RETURN_STATE
  <2> DEFINE f == [Top EXCEPT !.returnIndex = Caller.returnIndex]
  <2>1. f \in Frame /\ f.returnIndex = Caller.returnIndex
    BY <1>1 DEF Frame
  <2>2. Leave({"RETURN_STATE"}, f)
    BY <1>4 DEF RETURN_STATE
  <2> HIDE DEF f
  <2> QED
    BY <2>1, <2>2, LeaveIs
<1> QED
  BY <1>2, <1>3, <1>4

LEMMA DiggAroundHandler ==
    ASSUME Typed(condition), BotType, MACROS_DIGG_AROUND
    PROVE  CellRuns
<1> DEFINE home == IF condition.rotate_cache = NoRotation THEN bot.rotationIndex
                   ELSE condition.rotate_cache
           c1 == [condition EXCEPT !.rotate_cache = home]
           c2 == [condition EXCEPT !.rotate_cache = NoRotation]
<1>1. condition.isExecute /\ InProgram /\ Cell.id = "MACROS_DIGG_AROUND"
  BY DEF MACROS_DIGG_AROUND, OnCell
<1>2. condition' = c1 \/ condition' = Iterate(c2)
  BY DEF MACROS_DIGG_AROUND
<1>3. home \in 0..3
  BY DEF Typed, BotType, NoRotation
<1> HIDE DEF home
<1>4. CASE condition' = c1
  <2>1. SameRun([condition EXCEPT !.rotate_cache = condition'.rotate_cache], condition')
        /\ condition'.currIndex = condition.currIndex /\ condition'.rotate_cache = home
    BY <1>4 DEF Typed, Fields, SameRun
  <2>2. /\ DOMAIN condition' = Fields
        /\ condition'.program = condition.program /\ condition'.isExecute = condition.isExecute
        /\ condition'.isHandModeActive = condition.isHandModeActive
        /\ condition'.mode_flip = condition.mode_flip
        /\ condition'.startIndex = condition.startIndex
        /\ condition'.stack = condition.stack /\ condition'.stackDepth = condition.stackDepth
        /\ condition'.uservariables = condition.uservariables
    BY <1>4 DEF Typed, Fields
  <2>3. condition.currIndex \in 0..(Len(condition.program) - 1)
    BY <1>1, ProgramType DEF Typed, InProgram
  <2> QED
    BY <1>1, <1>3, <2>1, <2>2, <2>3
    DEF CellRuns, Typed, FramesKept, IndexMoved, VariablesKept, CacheKept
<1>5. CASE condition' = Iterate(c2)
  <2>1. /\ DOMAIN c2 = Fields
        /\ c2.program = condition.program /\ c2.isExecute = condition.isExecute
        /\ c2.isHandModeActive = condition.isHandModeActive
        /\ c2.mode_flip = condition.mode_flip /\ c2.startIndex = condition.startIndex
        /\ c2.stack = condition.stack /\ c2.stackDepth = condition.stackDepth
        /\ c2.uservariables = condition.uservariables /\ c2.currIndex = condition.currIndex
        /\ c2.rotate_cache = NoRotation
    BY DEF Typed, Fields
  <2> HIDE DEF c2
  <2>2. SameRun(c2, condition') /\ condition'.currIndex = After(c2.currIndex)
    BY <1>5, <2>1, IterateIs
  <2> QED
    BY <1>1, <2>1, <2>2
    DEF CellRuns, Typed, SameRun, FramesKept, IndexMoved, VariablesKept, CacheKept
<1> QED
  BY <1>2, <1>4, <1>5

------------------------------------------------------------------------------
\* A reset run.  Only the stop cell moves on after it.
Cleared ==
    /\ DOMAIN condition' = Fields
    /\ condition'.program \in Programs /\ condition'.isExecute \in BOOLEAN
    /\ condition'.startIndex = condition.startIndex
    /\ condition'.stack = [condition.stack EXCEPT ![1] = ProgramStack]
    /\ condition'.uservariables = << >> /\ condition'.stackDepth = 0
    /\ condition'.mode_flip = FALSE /\ condition'.isHandModeActive = FALSE
    /\ condition'.rotate_cache = NoRotation
    /\ \/ condition'.currIndex = 0
       \/ /\ condition'.currIndex = 1 /\ condition'.program = condition.program
          /\ InProgram /\ Cell.id = "stop"

\* The key starts a stopped program as it stands.
Started ==
    /\ ~condition.isExecute
    /\ SameRun([condition EXCEPT !.isExecute = TRUE], condition')
    /\ condition'.isExecute = TRUE
    /\ condition'.currIndex = condition.currIndex

LEMMA ResetSteps ==
    ASSUME Typed(condition), stop \/ setprogram \/ start_prog \/ stop_prog \/ KeyR
    PROVE  Cleared \/ Started
<1>1. DOMAIN condition = Fields
  BY DEF Typed
<1>2. CASE stop
  <2> DEFINE b == [condition EXCEPT !.isExecute = FALSE]
  <2>1. condition' = Iterate(Reset(b)) /\ InProgram /\ Cell.id = "stop"
    BY <1>2 DEF stop, OnCell
  <2>2. /\ DOMAIN b = Fields /\ b.isExecute = FALSE /\ b.program = condition.program
        /\ b.startIndex = condition.startIndex /\ b.stack = condition.stack
    BY <1>1 DEF Fields
  <2> HIDE DEF b
  <2> DEFINE c == Reset(b)
  <2>3. /\ DOMAIN c = Fields /\ c.program = b.program /\ c.isExecute = b.isExecute
        /\ c.startIndex = b.startIndex /\ c.stack = [b.stack EXCEPT ![1] = ProgramStack]
        /\ c.uservariables = << >> /\ c.stackDepth = 0 /\ c.currIndex = 0
        /\ c.mode_flip = FALSE /\ c.rotate_cache = NoRotation /\ c.isHandModeActive = FALSE
    BY <2>2, ResetIs
  <2> HIDE DEF c
  <2>4. SameRun(c, condition') /\ condition'.currIndex = After(c.currIndex)
    BY <2>1, <2>3, IterateIs DEF c
  <2>5. After(0) = 1
    BY LineLengthAssumption DEF After
  <2> QED
    BY <2>1, <2>2, <2>3, <2>4, <2>5 DEF Cleared, SameRun, Typed
<1>3. ASSUME NEW b, DOMAIN b = Fields, b.program \in Programs, b.isExecute \in BOOLEAN,
             b.startIndex = condition.startIndex, b.stack = condition.stack,
             condition' = Reset(b)
      PROVE  Cleared
  <2>1. /\ DOMAIN Reset(b) = Fields /\ Reset(b).program = b.program
        /\ Reset(b).isExecute = b.isExecute /\ Reset(b).startIndex = b.startIndex
        /\ Reset(b).stack = [b.stack EXCEPT ![1] = ProgramStack]
        /\ Reset(b).uservariables = << >> /\ Reset(b).stackDepth = 0
        /\ Reset(b).currIndex = 0 /\ Reset(b).mode_flip = FALSE
        /\ Reset(b).rotate_cache = NoRotation /\ Reset(b).isHandModeActive = FALSE
    BY <1>3, ResetIs
  <2> QED
    BY <1>3, <2>1 DEF Cleared
<1>4. CASE setprogram
  <2>1. PICK p \in Programs : condition' = Reset([condition EXCEPT !.program = p])
    BY <1>4 DEF setprogram
  <2> DEFINE b == [condition EXCEPT !.program = p]
  <2>2. /\ DOMAIN b = Fields /\ b.program \in Programs /\ b.isExecute \in BOOLEAN
        /\ b.startIndex = condition.startIndex /\ b.stack = condition.stack
    BY <1>1 DEF Fields, Typed
  <2> HIDE DEF b
  <2> QED
    BY <1>3, <2>1, <2>2 DEF b
<1>5. CASE start_prog \/ stop_prog
  <2>1. PICK e \in BOOLEAN : condition' = [Reset(condition) EXCEPT !.isExecute = e]
    BY <1>5 DEF start_prog, stop_prog
  <2> DEFINE c == Reset(condition)
  <2>2. /\ DOMAIN c = Fields /\ c.program = condition.program
        /\ c.startIndex = condition.startIndex
        /\ c.stack = [condition.stack EXCEPT ![1] = ProgramStack]
        /\ c.uservariables = << >> /\ c.stackDepth = 0 /\ c.currIndex = 0
        /\ c.mode_flip = FALSE /\ c.rotate_cache = NoRotation /\ c.isHandModeActive = FALSE
    BY <1>1, ResetIs
  <2>3. condition' = [c EXCEPT !.isExecute = e]
    BY <2>1
  <2> HIDE DEF c
  <2> QED
    BY <2>2, <2>3 DEF Cleared, Typed, Fields
<1>6. CASE KeyR
  <2>1. CASE condition.isExecute
    <3> DEFINE b == [condition EXCEPT !.isExecute = FALSE]
    <3>1. condition' = Reset(b)
      BY <1>6, <2>1 DEF KeyR
    <3>2. /\ DOMAIN b = Fields /\ b.program \in Programs /\ b.isExecute \in BOOLEAN
          /\ b.startIndex = condition.startIndex /\ b.stack = condition.stack
      BY <1>1 DEF Fields, Typed
    <3> HIDE DEF b
    <3> QED
      BY <1>3, <3>1, <3>2
  <2>2. CASE ~condition.isExecute
    BY <1>1, <1>6, <2>2 DEF KeyR, Started, SameRun, Fields
  <2> QED
    BY <2>1, <2>2
<1> QED
  BY <1>2, <1>4, <1>5, <1>6

\* Every step of the system does one of these to the condition.
LEMMA ConditionStep ==
    ASSUME TypeInv, [Next]_vars
    PROVE  condition' = condition \/ CellRuns \/ Cleared \/ Started
<1>1. Typed(condition) /\ BotType
  BY DEF TypeInv
<1>2. CASE UNCHANGED vars \/ Throw \/ UserAct \/ CooldownEnds
  BY <1>2 DEF vars, Throw, UserAct, CooldownEnds
<1> QED
  BY <1>1, <1>2, SimpleHandlers, FrameHandlers, VariableHandlers, JumpHandlers, CallHandlers,
     ReturnHandlers, DiggAroundHandler, ResetSteps DEF Next, Execute
------------------------------------------------------------------------------
\* What an effect leaves of the frames: they stay frames, the live ones keep
\* the calls they return to, and those below the caller are not touched.
FrameStep ==
    /\ condition'.stack \in Seq(Frame)
    /\ condition'.stackDepth \in 0..MaxDepth
    /\ condition'.stackDepth < Len(condition'.stack)
    /\ \A d \in 1..condition'.stackDepth :
          \/ /\ d <= condition.stackDepth
             /\ condition'.stack[d + 1].returnIndex = condition.stack[d + 1].returnIndex
          \/ /\ Cell.id \in Calls
             /\ condition'.stack[d + 1].returnIndex = condition.currIndex
    /\ condition'.stackDepth <= condition.stackDepth =>
          \A k \in 1..condition'.stackDepth : condition'.stack[k] = condition.stack[k]
    /\ condition'.stackDepth > condition.stackDepth =>
          \A k \in 1..(condition.stackDepth + 1) : condition'.stack[k] = condition.stack[k]

LEMMA FramesOfCell ==
    ASSUME Typed(condition), FramesKept \/ TopWritten \/ Entered \/ Left
    PROVE  FrameStep
<1> DEFINE q == condition.stack
           n == condition.stackDepth
           q2 == condition'.stack
           n2 == condition'.stackDepth
<1>1. q \in Seq(Frame) /\ n \in 0..MaxDepth /\ n < Len(q) /\ MaxDepth \in Nat /\ Len(q) \in Nat
  BY BoundsAssumption DEF Typed
<1>2. CASE FramesKept
  BY <1>1, <1>2 DEF FramesKept, FrameStep
<1>3. CASE TopWritten
  <2>1. PICK f \in Frame : f.returnIndex = q[n + 1].returnIndex /\ q2 = [q EXCEPT ![n + 1] = f]
    BY <1>3 DEF TopWritten, Top
  <2>2. n2 = n
    BY <1>3 DEF TopWritten
  <2> HIDE DEF q, n, q2, n2
  <2>3. q2 \in Seq(Frame) /\ Len(q2) = Len(q) /\ q2[n + 1] = f
        /\ \A k \in 1..n : q2[k] = q[k]
    BY <1>1, <2>1
  <2>4. \A d \in 1..n2 : d <= n /\ q2[d + 1].returnIndex = q[d + 1].returnIndex
    <3>1. SUFFICES ASSUME NEW d \in 1..n PROVE q2[d + 1].returnIndex = q[d + 1].returnIndex
      BY <1>1, <2>2
    <3>2. CASE d = n
      BY <2>1, <2>3, <3>2
    <3>3. CASE d # n
      <4>1. d + 1 \in 1..n
        BY <1>1, <3>3
      <4> QED
        BY <2>3, <4>1
    <3> QED
      BY <3>2, <3>3
  <2> QED
    BY <1>1, <2>2, <2>3, <2>4 DEF FrameStep, q, n, q2, n2
<1>4. CASE Entered
  <2>1. PICK f \in Frame : /\ f.returnIndex = condition.currIndex
                           /\ q2 = IF n + 1 = Len(q) THEN Append(q, f) ELSE [q EXCEPT ![n + 2] = f]
    BY <1>4 DEF Entered
  <2>2. n2 = n + 1 /\ n < MaxDepth /\ Cell.id \in Calls
    BY <1>4 DEF Entered
  <2> HIDE DEF q, n, q2, n2
  <2>3. q2 \in Seq(Frame) /\ Len(q2) > n + 1 /\ q2[n + 2] = f
        /\ \A k \in 1..(n + 1) : q2[k] = q[k]
    <3>1. CASE n + 1 = Len(q)
      BY <1>1, <2>1, <3>1
    <3>2. CASE n + 1 # Len(q)
      BY <1>1, <2>1, <3>2
    <3> QED
      BY <3>1, <3>2
  <2>4. \A d \in 1..n2 : \/ d <= n /\ q2[d + 1].returnIndex = q[d + 1].returnIndex
                         \/ q2[d + 1].returnIndex = condition.currIndex
    <3>1. SUFFICES ASSUME NEW d \in 1..(n + 1)
                   PROVE  \/ d <= n /\ q2[d + 1].returnIndex = q[d + 1].returnIndex
                          \/ q2[d + 1].returnIndex = condition.currIndex
      BY <2>2
    <3>2. CASE d = n + 1
      <4>1. d + 1 = n + 2
        BY <1>1, <3>2
      <4> QED
        BY <2>1, <2>3, <4>1
    <3>3. CASE d # n + 1
      <4>1. d <= n /\ d + 1 \in 1..(n + 1)
        BY <1>1, <3>3
      <4> QED
        BY <2>3, <4>1
    <3> QED
      BY <3>2, <3>3
  <2>5. n2 \in 0..MaxDepth /\ n2 < Len(q2) /\ n2 > n
    BY <1>1, <2>2, <2>3
  <2> QED
    BY <1>1, <2>2, <2>3, <2>4, <2>5 DEF FrameStep, q, n, q2, n2
<1>5. CASE Left
  <2>1. PICK f \in Frame : f.returnIndex = q[n].returnIndex /\ q2 = [q EXCEPT ![n] = f]
    BY <1>5 DEF Left
  <2>2. n2 = n - 1 /\ n > 0
    BY <1>5 DEF Left
  <2> HIDE DEF q, n, q2, n2
  <2>3. q2 \in Seq(Frame) /\ Len(q2) = Len(q) /\ q2[n] = f
        /\ \A k \in 1..(n - 1) : q2[k] = q[k]
    BY <1>1, <2>1, <2>2
  <2>4. \A d \in 1..n2 : d <= n /\ q2[d + 1].returnIndex = q[d + 1].returnIndex
    <3>1. SUFFICES ASSUME NEW d \in 1..(n - 1)
                   PROVE  d <= n /\ q2[d + 1].returnIndex = q[d + 1].returnIndex
      BY <2>2
    <3>2. CASE d + 1 = n
      BY <1>1, <2>1, <2>3, <3>2
    <3>3. CASE d + 1 # n
      <4>1. d <= n /\ d + 1 \in 1..(n - 1)
        BY <1>1, <3>3
      <4> QED
        BY <2>3, <4>1
    <3> QED
      BY <1>1, <3>2, <3>3
  <2>5. n2 \in 0..MaxDepth /\ n2 < Len(q2) /\ n2 <= n /\ ~(n2 > n)
    BY <1>1, <2>2, <2>3
  <2> QED
    BY <1>1, <2>2, <2>3, <2>4, <2>5 DEF FrameStep, q, n, q2, n2
<1> QED
  BY <1>2, <1>3, <1>4, <1>5

LEMMA FramesOfReset ==
    ASSUME Typed(condition), condition'.stack = [condition.stack EXCEPT ![1] = ProgramStack],
           condition'.stackDepth = 0
    PROVE  FrameStep /\ condition'.stack[1] = ProgramStack
<1>1. condition.stack \in Seq(Frame) /\ Len(condition.stack) > 0
  BY DEF Typed
<1>2. /\ condition'.stack \in Seq(Frame) /\ Len(condition'.stack) = Len(condition.stack)
      /\ condition'.stack[1] = ProgramStack
  BY <1>1, NewFrame
<1> QED
  BY <1>1, <1>2, BoundsAssumption DEF FrameStep, Typed

LEMMA FramesOfStep ==
    ASSUME TypeInv, [Next]_vars
    PROVE  FrameStep
<1>1. Typed(condition)
  BY DEF TypeInv
<1>2. CASE condition' = condition \/ Started
  <2>1. FramesKept
    BY <1>1, <1>2 DEF FramesKept, Started, SameRun, Typed, Fields
  <2> QED
    BY <1>1, <2>1, FramesOfCell
<1>3. CASE CellRuns
  BY <1>1, <1>3, FramesOfCell DEF CellRuns
<1>4. CASE Cleared
  BY <1>1, <1>4, FramesOfReset DEF Cleared
<1> QED
  BY <1>2, <1>3, <1>4, ConditionStep

\* The bot turns to one of four sides.
LEMMA BotStep ==
    ASSUME TypeInv, [Next]_vars
    PROVE  BotType' /\ ticking' \in BOOLEAN
<1>1. bot \in [cooldown : BOOLEAN, rotationIndex : 0..3] /\ ticking \in BOOLEAN
  BY DEF TypeInv, BotType
<1>2. ASSUME NEW refusable \in BOOLEAN, NEW r \in 0..3, Busy(refusable, r) PROVE BotType'
  BY <1>1, <1>2 DEF Busy, BotType
<1>3. CASE Macro
  <2>1. ticking' = ticking /\ (Busy(TRUE, bot.rotationIndex) \/ Busy(FALSE, bot.rotationIndex))
    BY <1>3 DEF Macro, OnCell, Busy
  <2> QED
    BY <1>1, <1>2, <2>1
<1>4. CASE MACROS_DIGG_AROUND
  <2>1. ticking' = ticking
    BY <1>4 DEF MACROS_DIGG_AROUND, OnCell
  <2>2. condition.rotate_cache \in -1..3
    BY DEF TypeInv, Typed
  <2>3. \E r \in 0..3 : Busy(TRUE, r) \/ Busy(FALSE, r)
    <3> DEFINE home == IF condition.rotate_cache = NoRotation THEN bot.rotationIndex
                       ELSE condition.rotate_cache
    <3>1. (\E turn \in LookedAround : Busy(TRUE, (home + turn) % 4)) \/ Busy(FALSE, home)
      BY <1>4 DEF MACROS_DIGG_AROUND
    <3>2. home \in 0..3
      BY <1>1, <2>2 DEF NoRotation
    <3> HIDE DEF home
    <3>3. \A turn \in LookedAround : (home + turn) % 4 \in 0..3
      BY <3>2 DEF LookedAround
    <3> QED
      BY <3>1, <3>2, <3>3
  <2> QED
    BY <1>1, <1>2, <2>1, <2>3
<1>5. CASE Action
  <2>1. ticking' = ticking
    BY <1>5 DEF Action, OnCell
  <2> DEFINE id == Cell.id
             flipped == condition.mode_flip
             mirror(r) == IF flipped /\ r \in {1, 3} THEN 4 - r ELSE r
             spin == IF flipped = (id = "rotate_CCW") THEN 1 ELSE 3
             rotations == IF id \in DOMAIN Turns THEN {mirror(Turns[id])}
                          ELSE IF id = "rotate_random" THEN 0..3
                          ELSE IF id \in Spins THEN {(bot.rotationIndex + spin) % 4}
                          ELSE {bot.rotationIndex}
             b == id \notin Rotates \cup Spins \cup {"set_block", "heal"}
  <2>2. \E r \in rotations : Busy(b, r)
    BY <1>5, Zenon DEF Action
  <2>3. Turns \in [DOMAIN Turns -> 0..3]
    BY DEF Turns
  <2>4. rotations \subseteq 0..3
    <3> HIDE DEF id
    <3>1. spin \in {1, 3}
      OBVIOUS
    <3> HIDE DEF spin
    <3>2. (bot.rotationIndex + spin) % 4 \in 0..3
      BY <1>1, <3>1
    <3>3. id \in DOMAIN Turns => mirror(Turns[id]) \in 0..3
      BY <2>3
    <3> QED
      BY <1>1, <3>2, <3>3
  <2>5. b \in BOOLEAN
    OBVIOUS
  <2> HIDE DEF b, rotations
  <2> QED
    BY <1>1, <1>2, <2>1, <2>2, <2>4, <2>5
<1>6. CASE UserAct \/ CooldownEnds
  BY <1>1, <1>6 DEF UserAct, CooldownEnds, BotType
<1>7. CASE Throw
  BY <1>1, <1>7 DEF Throw, BotType
<1>8. CASE UNCHANGED <<bot, ticking>>
  BY <1>1, <1>8 DEF BotType
<1>9. CASE \/ empty \/ new_line \/ stub \/ GO_SUB \/ GO_STATE \/ GO_FUNC \/ look
           \/ start \/ stop \/ GO_TO \/ HAND_MODE \/ Branch \/ Logic \/ FLIP \/ Mode
           \/ RETURN \/ RETURN_FUNK \/ RETURN_STATE \/ VAR_EQUAL \/ VAR_COMPARE \/ Predicate
  <2>1. UNCHANGED <<bot, ticking>>
    BY <1>9 DEF empty, new_line, stub, GO_SUB, GO_STATE, GO_FUNC, look, start, stop, GO_TO,
         HAND_MODE, Branch, Logic, FLIP, Mode, RETURN, RETURN_FUNK, RETURN_STATE, Leave,
         VAR_EQUAL, VAR_COMPARE, Predicate, OnCell
  <2> QED
    BY <1>8, <2>1
<1>10. CASE KeyR \/ setprogram \/ start_prog \/ stop_prog \/ UNCHANGED vars
  <2>1. UNCHANGED <<bot, ticking>>
    BY <1>10 DEF KeyR, setprogram, start_prog, stop_prog, vars
  <2> QED
    BY <1>8, <2>1
<1> QED
  BY <1>3, <1>4, <1>5, <1>6, <1>7, <1>9, <1>10 DEF Next, Execute

\* The index stays a natural number: a return goes to a call of the program.
LEMMA IndexStep ==
    ASSUME TypeInv, CellRuns
    PROVE  condition'.currIndex \in Nat
<1>1. Typed(condition) /\ CallersAreCalls
  BY DEF TypeInv
<1>2. /\ condition.currIndex \in Nat /\ condition.startIndex \in Nat
      /\ Len(condition.program) \in Nat /\ LineLength \in Nat \ {0, 1}
  BY <1>1, ProgramType, LineLengthAssumption DEF Typed
<1>3. ToIndex(Cell.to) \in Nat
  BY <1>1, <1>2, CellType DEF ToIndex, CellRuns
<1>4. (condition.currIndex \div LineLength + 1) * LineLength \in Nat
  BY <1>2
<1>5. Left => Top.returnIndex \in Nat
  BY <1>1, <1>2 DEF Left, Typed, CallersAreCalls, Top
<1>6. After(condition.currIndex) \in Nat /\ (Left => After(Top.returnIndex) \in Nat)
  BY <1>2, <1>5, AfterType
<1>7. \A j \in {condition.startIndex} \cup 0..(Len(condition.program) - 1) : j \in Nat
  BY <1>2
<1>8. IndexMoved
  BY DEF CellRuns
<1> QED
  BY <1>3, <1>4, <1>6, <1>7, <1>8 DEF IndexMoved

LEMMA CallersStep ==
    ASSUME TypeInv, [Next]_vars
    PROVE  CallersAreCalls'
<1>1. Typed(condition) /\ CallersAreCalls
  BY DEF TypeInv
<1>2. CASE condition' = condition \/ Started
  <2>1. /\ condition'.stack = condition.stack /\ condition'.stackDepth = condition.stackDepth
        /\ condition'.program = condition.program
    BY <1>1, <1>2 DEF Started, SameRun, Typed, Fields
  <2> QED
    BY <1>1, <2>1 DEF CallersAreCalls
<1>3. CASE Cleared
  BY <1>3 DEF Cleared, CallersAreCalls
<1>4. CASE CellRuns
  <2>1. FrameStep
    BY FramesOfStep
  <2>2. /\ condition'.program = condition.program
        /\ condition.currIndex \in 0..(Len(condition.program) - 1)
        /\ Cell = condition.program[condition.currIndex + 1]
    BY <1>1, <1>4, ProgramType DEF CellRuns, Typed, InProgram, Cell
  <2>3. SUFFICES ASSUME NEW d \in 1..condition'.stackDepth
                 PROVE  LET r == condition'.stack[d + 1].returnIndex
                        IN /\ r \in 0..(Len(condition.program) - 1)
                           /\ condition.program[r + 1].id \in Calls
    BY <2>2 DEF CallersAreCalls
  <2>4. CASE Cell.id \in Calls /\ condition'.stack[d + 1].returnIndex = condition.currIndex
    BY <2>2, <2>4
  <2>5. CASE d <= condition.stackDepth
             /\ condition'.stack[d + 1].returnIndex = condition.stack[d + 1].returnIndex
    <3>1. d \in 1..condition.stackDepth
      BY <1>1, <2>1, <2>5 DEF Typed, FrameStep
    <3> QED
      BY <1>1, <2>5, <3>1 DEF CallersAreCalls
  <2> QED
    BY <2>1, <2>4, <2>5 DEF FrameStep
<1> QED
  BY <1>2, <1>3, <1>4, ConditionStep

LEMMA TypeStep == TypeInv /\ [Next]_vars => TypeInv'
<1> SUFFICES ASSUME TypeInv, [Next]_vars PROVE TypeInv'
  OBVIOUS
<1>1. Typed(condition)
  BY DEF TypeInv
<1>2. FrameStep
  BY FramesOfStep
<1>3. ASSUME condition' = condition PROVE Typed(condition')
  BY <1>1, <1>3
<1>4. ASSUME Started PROVE Typed(condition')
  BY <1>1, <1>4 DEF Started, SameRun, Typed, Fields
<1>5. ASSUME Cleared PROVE Typed(condition')
  <2>1. /\ condition'.stack \in Seq(Frame)
        /\ condition'.stackDepth \in 0..MaxDepth /\ condition'.stackDepth < Len(condition'.stack)
    BY <1>2 DEF FrameStep
  <2>2. condition'.currIndex \in Nat /\ condition'.rotate_cache \in -1..3
    BY <1>5 DEF Cleared, NoRotation
  <2>3. condition'.mode_flip \in BOOLEAN /\ condition'.isHandModeActive \in BOOLEAN
    BY <1>5 DEF Cleared
  <2>4. /\ DOMAIN condition' = Fields /\ condition'.program \in Programs
        /\ condition'.isExecute \in BOOLEAN /\ condition'.startIndex \in Nat
    BY <1>1, <1>5 DEF Cleared, Typed
  <2> QED
    BY <2>1, <2>2, <2>3, <2>4 DEF Typed
<1>6. ASSUME CellRuns PROVE Typed(condition')
  <2>1. condition'.currIndex \in Nat
    BY <1>6, IndexStep
  <2>2. condition'.rotate_cache \in -1..3
    BY <1>1, <1>6 DEF CellRuns, CacheKept, Typed, NoRotation
  <2> QED
    BY <1>1, <1>2, <1>6, <2>1, <2>2 DEF CellRuns, Typed, FrameStep
<1>7. Typed(condition')
  BY <1>3, <1>4, <1>5, <1>6, ConditionStep
<1> QED
  BY <1>7, BotStep, CallersStep DEF TypeInv

LEMMA TypeInit == Init => TypeInv
<1> SUFFICES ASSUME Init PROVE TypeInv
  OBVIOUS
<1> DEFINE c == [program |-> TESTPROGRAM, isExecute |-> FALSE,
                 isHandModeActive |-> FALSE, startIndex |-> 0,
                 currIndex |-> 0, rotate_cache |-> NoRotation, stackDepth |-> 0,
                 mode_flip |-> FALSE, uservariables |-> << >>,
                 lastVariables |-> VarCacher, stack |-> <<ProgramStack>>]
<1>1. condition = c
  BY DEF Init
<1>2. <<ProgramStack>> \in Seq(Frame) /\ Len(<<ProgramStack>>) = 1
  BY NewFrame
<1>3. Typed(c)
  BY <1>2, ProgramsAssumption, BoundsAssumption DEF Typed, Fields, NoRotation
<1>4. c.stackDepth = 0
  OBVIOUS
<1>5. CallersAreCalls
  BY <1>1, <1>4 DEF CallersAreCalls
<1> QED
  BY <1>1, <1>3, <1>5 DEF TypeInv, Init, BotType

LEMMA TypeAlways == Spec => []TypeInv
BY TypeInit, TypeStep, PTL DEF Spec

\* Every field of the condition and the bot keeps its type in every run: the
\* index is a natural number and the top of the stack is a frame of it.
THEOREM TypeCorrect == Spec => []TypeOK
<1>1. TypeInv => TypeOK
  <2> SUFFICES ASSUME TypeInv PROVE TypeOK
    OBVIOUS
  <2>1. Typed(condition)
    BY DEF TypeInv
  <2>2. ASSUME NEW k \in 1..Len(condition.stack)
        PROVE  condition.stack[k] \in Frame
    BY <2>1 DEF Typed
  <2> QED
    BY <2>1, <2>2 DEF TypeInv, TypeOK, Typed, BotType, Frame
<1> QED
  BY <1>1, TypeAlways, PTL

\* No step touches the frames below the caller of the running function.
THEOREM FramesAreIsolated == Spec => FrameIsolation
<1> DEFINE Isolated == LET d == condition.stackDepth
                           e == condition'.stackDepth
                           kept == IF e > d THEN d + 1 ELSE e
                       IN \A k \in 1..kept : condition'.stack[k] = condition.stack[k]
<1>1. TypeInv /\ TypeInv' /\ [Next]_vars => [Isolated]_vars
  <2> SUFFICES ASSUME TypeInv, TypeInv', [Next]_vars PROVE Isolated
    OBVIOUS
  <2>1. FrameStep
    BY FramesOfStep
  <2>2. condition.stackDepth \in Nat /\ condition'.stackDepth \in Nat
    BY DEF TypeInv, Typed
  <2> QED
    BY <2>1, <2>2 DEF FrameStep
<1> QED
  BY <1>1, TypeAlways, PTL DEF Spec, FrameIsolation
------------------------------------------------------------------------------
(***************************************************************************)
(* A stopped program is clean and a run keeps only what belongs to its     *)
(* program.  Both are about the same fields, and starting with the key     *)
(* resets nothing, so each needs the other: the half-done macro of         *)
(* CacheBelongsToMacro is excluded at a start because the stop cleared it. *)
(***************************************************************************)
RunInv == VarsAreDeclared /\ CacheBelongsToMacro /\ StoppedIsClean

LEMMA RunStep ==
    ASSUME TypeInv, RunInv, [Next]_vars
    PROVE  RunInv'
<1>1. Typed(condition) /\ VarsAreDeclared /\ CacheBelongsToMacro /\ StoppedIsClean
  BY DEF TypeInv, RunInv
<1>2. CASE condition' = condition
  BY <1>1, <1>2 DEF RunInv, VarsAreDeclared, CacheBelongsToMacro, StoppedIsClean, InProgram, Cell
<1>3. CASE Started
  <2>1. /\ condition'.program = condition.program /\ condition'.isExecute = TRUE
        /\ condition'.uservariables = condition.uservariables
        /\ condition'.rotate_cache = condition.rotate_cache
        /\ ~condition.isExecute
    BY <1>1, <1>3 DEF Started, SameRun, Typed, Fields
  <2>2. condition.rotate_cache = NoRotation
    BY <1>1, <2>1 DEF StoppedIsClean
  <2>3. VarsAreDeclared'
    BY <1>1, <2>1 DEF VarsAreDeclared
  <2> QED
    BY <2>1, <2>2, <2>3 DEF RunInv, CacheBelongsToMacro, StoppedIsClean
<1>4. CASE Cleared
  <2>1. condition'.stack[1] = ProgramStack
    BY <1>1, <1>4, FramesOfReset DEF Cleared
  <2>2. VarsAreDeclared'
    BY <1>4 DEF Cleared, VarsAreDeclared
  <2>3. CacheBelongsToMacro' /\ StoppedIsClean'
    BY <1>4, <2>1 DEF Cleared, CacheBelongsToMacro, StoppedIsClean
  <2> QED
    BY <2>2, <2>3 DEF RunInv
<1>5. CASE CellRuns
  <2>1. /\ condition'.program = condition.program /\ condition'.isExecute = condition.isExecute
        /\ condition.isExecute /\ InProgram
        /\ VariablesKept /\ CacheKept
    BY <1>5 DEF CellRuns
  <2>2. VarsAreDeclared'
    <3>1. SUFFICES ASSUME NEW n \in DOMAIN condition'.uservariables
                   PROVE  /\ n \notin HasGetter \cup PComands
                          /\ \E i \in 1..Len(condition.program) :
                                /\ condition.program[i].id = "VAR_EQUAL"
                                /\ condition.program[i].var = n
      BY <2>1 DEF VarsAreDeclared
    <3>2. CASE n \in DOMAIN condition.uservariables
      BY <1>1, <3>2 DEF VarsAreDeclared
    <3>3. CASE Cell.id = "VAR_EQUAL" /\ Cell.var = n /\ n \notin HasGetter \cup PComands
      <4>1. condition.currIndex + 1 \in 1..Len(condition.program)
        BY <1>1, <2>1, ProgramType DEF Typed, InProgram
      <4> QED
        BY <3>3, <4>1 DEF Cell
    <3> QED
      BY <2>1, <3>2, <3>3 DEF VariablesKept
  <2>3. CacheBelongsToMacro'
    <3>1. SUFFICES ASSUME condition'.rotate_cache # NoRotation
                   PROVE  /\ condition'.currIndex = condition.currIndex
                          /\ Cell.id = "MACROS_DIGG_AROUND"
      BY <2>1 DEF CacheBelongsToMacro, InProgram, Cell
    <3> QED
      BY <1>1, <2>1, <3>1 DEF CacheKept, CacheBelongsToMacro
  <2>4. StoppedIsClean'
    BY <2>1 DEF StoppedIsClean
  <2> QED
    BY <2>2, <2>3, <2>4 DEF RunInv
<1> QED
  BY <1>2, <1>3, <1>4, <1>5, ConditionStep

LEMMA RunAlways == Spec => []RunInv
<1>1. Init => RunInv
  <2> SUFFICES ASSUME Init PROVE RunInv
    OBVIOUS
  <2>1. /\ condition.uservariables = << >> /\ condition.rotate_cache = NoRotation
        /\ condition.stackDepth = 0 /\ condition.stack = <<ProgramStack>>
        /\ condition.mode_flip = FALSE /\ condition.isHandModeActive = FALSE
        /\ condition.currIndex = 0
    BY DEF Init
  <2>2. VarsAreDeclared
    BY <2>1 DEF VarsAreDeclared
  <2> QED
    BY <2>1, <2>2 DEF RunInv, CacheBelongsToMacro, StoppedIsClean
<1>2. TypeInv /\ RunInv /\ [Next]_vars => RunInv'
  BY RunStep
<1> QED
  BY <1>1, <1>2, TypeAlways, PTL DEF Spec

\* However a program was stopped, the next start finds a clean run.
THEOREM StopCleans == Spec => []StoppedIsClean
<1>1. RunInv => StoppedIsClean
  BY DEF RunInv
<1> QED
  BY <1>1, RunAlways, PTL

\* Frames, variables and a half-done macro never outlive the program or the
\* run that made them: a return always lands on a call of the loaded program.
THEOREM RunIsOfProgram == Spec => []RunBelongsToProgram
<1>1. TypeInv /\ RunInv => RunBelongsToProgram
  BY DEF TypeInv, RunInv, RunBelongsToProgram
<1> QED
  BY <1>1, TypeAlways, RunAlways, PTL
------------------------------------------------------------------------------
(***************************************************************************)
(* The ticker.  The index stays inside a well-formed program as long as    *)
(* startIndex is inside it: a program that was replaced by a shorter one   *)
(* leaves a startIndex outside, and only a start cell brings it back.      *)
(***************************************************************************)
IndexInv ==
    WellFormed(condition.program) /\ condition.startIndex < Len(condition.program) =>
        condition.currIndex < Len(condition.program)

\* Going on from a cell that is not empty stays inside a well-formed program.
LEMMA AfterInside ==
    ASSUME NEW p \in Programs, WellFormed(p), NEW i \in 0..(Len(p) - 1), p[i + 1].id # "empty"
    PROVE  After(i) < Len(p)
<1>1. Len(p) \in Nat \ {0} /\ LineLength \in Nat \ {0, 1}
  BY ProgramType, LineLengthAssumption
<1>2. CASE i % LineLength = LineLength - 1
  BY <1>1, <1>2 DEF After
<1>3. CASE i % LineLength # LineLength - 1
  <2>1. After(i) = i + 1
    BY <1>3 DEF After
  <2>2. i + 1 # Len(p)
    <3>1. SUFFICES ASSUME i + 1 = Len(p) PROVE FALSE
      OBVIOUS
    <3>2. Len(p) % LineLength = 0
      BY <3>1 DEF WellFormed
    <3> QED
      BY <1>3, <3>1, <3>2, LineEnd
  <2> QED
    BY <1>1, <2>1, <2>2
<1> QED
  BY <1>2, <1>3

LEMMA TickerStep ==
    ASSUME TypeInv, IndexInv, [Next]_vars
    PROVE  IndexInv'
<1> DEFINE p == condition.program
           i == condition.currIndex
<1>1. Typed(condition) /\ CallersAreCalls
  BY DEF TypeInv
<1>2. p \in Programs /\ Len(p) \in Nat \ {0} /\ i \in Nat
  BY <1>1, ProgramType DEF Typed
<1>3. CASE condition' = condition
  BY <1>3 DEF IndexInv
<1>4. CASE Started
  <2>1. /\ condition'.program = p /\ condition'.startIndex = condition.startIndex
        /\ condition'.currIndex = i
    BY <1>1, <1>4 DEF Started, SameRun, Typed, Fields
  <2> QED
    BY <2>1 DEF IndexInv
<1>5. CASE Cleared
  <2>1. CASE condition'.currIndex = 0
    <3>1. Len(condition'.program) \in Nat \ {0}
      BY <1>5, ProgramType DEF Cleared
    <3> QED
      BY <2>1, <3>1 DEF IndexInv
  <2>2. CASE condition'.currIndex = 1 /\ condition'.program = p /\ InProgram /\ Cell.id = "stop"
    <3>1. SUFFICES ASSUME WellFormed(p) PROVE 1 < Len(p)
      BY <2>2 DEF IndexInv
    <3>2. ASSUME Len(p) = 1 PROVE FALSE
      <4>1. i = 0 /\ Cell = p[i + 1]
        BY <1>2, <2>2, <3>2 DEF InProgram, Cell
      <4>2. p[Len(p)].id = "stop"
        BY <2>2, <3>2, <4>1
      <4>3. Len(p) % LineLength = 0
        BY <3>1, <4>2 DEF WellFormed
      <4>4. 1 % LineLength = 1
        BY LineLengthAssumption
      <4> QED
        BY <3>2, <4>3, <4>4
    <3>3. Len(p) \in Nat /\ Len(p) # 0 /\ Len(p) # 1
      BY <1>2, <3>2
    <3> DEFINE n == Len(p)
    <3> HIDE DEF n
    <3>4. n \in Nat /\ n # 0 /\ n # 1
      BY <3>3 DEF n
    <3>5. 1 < n
      BY <3>4
    <3> QED
      BY <3>5 DEF n
  <2> QED
    BY <1>5, <2>1, <2>2 DEF Cleared
<1>6. CASE CellRuns
  <2>1. /\ condition'.program = p
        /\ condition'.startIndex # condition.startIndex => Cell.id = "start"
        /\ i \in 0..(Len(p) - 1) /\ i + 1 \in 1..Len(p) /\ Cell = p[i + 1] /\ IndexMoved
    BY <1>2, <1>6 DEF CellRuns, InProgram, Cell
  <2>2. SUFFICES ASSUME WellFormed(p), condition'.startIndex < Len(p)
                 PROVE  condition'.currIndex < Len(p)
    BY <2>1 DEF IndexInv
  <2>3. CASE condition'.currIndex = After(i) /\ Cell.id # "empty"
    BY <1>2, <2>1, <2>2, <2>3, AfterInside
  <2>4. CASE condition'.currIndex = After(Top.returnIndex) /\ Left
    <3> DEFINE r == Top.returnIndex
    <3>1. condition.stackDepth \in 1..condition.stackDepth
      BY <1>1, <2>4 DEF Left, Typed
    <3>2. r \in 0..(Len(p) - 1) /\ p[r + 1].id \in Calls
      BY <1>1, <3>1 DEF CallersAreCalls, Top
    <3>3. p[r + 1].id # "empty"
      BY <3>2 DEF Calls
    <3> HIDE DEF r
    <3> QED
      BY <1>2, <2>2, <2>4, <3>2, <3>3, AfterInside DEF r
  <2>5. CASE /\ condition'.currIndex = (i \div LineLength + 1) * LineLength
             /\ Cell.id = "new_line"
    <3>1. (i + 1) - 1 = i
      BY <1>2
    <3> QED
      BY <2>1, <2>2, <2>5, <3>1 DEF WellFormed
  <2>6. CASE condition'.currIndex = ToIndex(Cell.to) /\ Cell.id \in Jumps
    <3>1. p[i + 1].to < Len(p) /\ condition'.startIndex = condition.startIndex
      BY <2>1, <2>2, <2>6 DEF WellFormed, Jumps, Calls
    <3> QED
      BY <2>1, <2>2, <2>6, <3>1 DEF ToIndex
  <2>7. CASE /\ condition'.currIndex \in {condition.startIndex} \cup 0..(Len(p) - 1)
             /\ Cell.id # "start"
    BY <1>2, <2>1, <2>2, <2>7
  <2> QED
    BY <2>1, <2>3, <2>4, <2>5, <2>6, <2>7 DEF IndexMoved
<1> QED
  BY <1>3, <1>4, <1>5, <1>6, ConditionStep

\* Only an ill-formed program, or the startIndex a longer program left behind,
\* stops the timer that runs the programs of all bots.
THEOREM TickerIsKept == Spec => TickerOutlivesWellFormed
<1> DEFINE Kept == ticking /\ ~ticking' => \/ ~WellFormed(condition.program)
                                           \/ condition.startIndex >= Len(condition.program)
<1>1. Init => IndexInv
  BY DEF Init, IndexInv
<1>2. TypeInv /\ IndexInv /\ [Next]_vars => IndexInv'
  BY TickerStep
<1>3. TypeInv /\ IndexInv /\ [Next]_vars => [Kept]_vars
  <2> SUFFICES ASSUME TypeInv, IndexInv, [Next]_vars, ticking, ~ticking', ~(UNCHANGED vars)
               PROVE  \/ ~WellFormed(condition.program)
                      \/ condition.startIndex >= Len(condition.program)
    OBVIOUS
  <2>1. Throw
    <3>1. CASE KeyR \/ setprogram \/ start_prog \/ stop_prog \/ UserAct \/ CooldownEnds
      BY <3>1 DEF KeyR, setprogram, start_prog, stop_prog, UserAct, CooldownEnds
    <3>2. CASE Execute
      BY <3>2 DEF Execute, empty, new_line, stub, GO_SUB, GO_STATE, GO_FUNC, look, start, stop,
           GO_TO, HAND_MODE, Branch, Macro, MACROS_DIGG_AROUND, Logic, FLIP, Mode, RETURN,
           RETURN_FUNK, RETURN_STATE, Leave, VAR_EQUAL, VAR_COMPARE, Predicate, Action, OnCell
    <3> QED
      BY <3>1, <3>2 DEF Next
  <2>2. ~(condition.currIndex < Len(condition.program))
    BY <2>1 DEF Throw, InProgram
  <2>3. condition.startIndex \in Nat /\ Len(condition.program) \in Nat
    BY ProgramType DEF TypeInv, Typed
  <2> QED
    BY <2>2, <2>3 DEF IndexInv
<1> QED
  BY <1>1, <1>2, <1>3, TypeAlways, PTL DEF Spec, TickerOutlivesWellFormed
==============================================================================
