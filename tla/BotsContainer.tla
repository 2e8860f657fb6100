----------------------------- MODULE BotsContainer -----------------------------
(***************************************************************************)
(* The index of bots by chunk (class BotsContainer of bot.js) and the      *)
(* callback by which a bot that moved keeps it up to date.  A bot may      *)
(* stand outside the map: nothing checks its position against the borders, *)
(* and its chunk number is then the one of a chunk it is not in, or no     *)
(* chunk's.                                                                *)
(***************************************************************************)
EXTENDS Integers

CONSTANTS
    Bots,
    ChunkSize,      \* cells along the side of a chunk (32 in the code)
    Width, Height,  \* of the map
    Xs, Ys,         \* coordinates a bot can reach, some outside the map
    Queries         \* <<x, y, radius>>

ASSUME ChunkAssumption == ChunkSize \in Nat \ {0} /\ Width \in Nat /\ Height \in Nat
ASSUME PlacesAssumption == Xs \subseteq Int /\ Ys \subseteq Int /\ Xs # {} /\ Ys # {}
ASSUME QueriesAssumption == Queries \subseteq Int \X Int \X Nat

Positions == Xs \X Ys
chunk_width == (Width + ChunkSize - 1) \div ChunkSize
chunk_height == (Height + ChunkSize - 1) \div ChunkSize

ChunkIndex2(x, y) == (x \div ChunkSize) + (y \div ChunkSize) * chunk_width
ChunkIndex(pos) == ChunkIndex2(pos[1], pos[2])

VARIABLES
    position, cachedPosition,   \* of every bot
    onBotMoved,                 \* the bots whose callback is this container's
    botlist,                    \* enrolled bots, each with its lastCindex
    chunks                      \* pairs of a chunk number and a bot filed under it

vars == <<position, cachedPosition, onBotMoved, botlist, chunks>>

Listed == DOMAIN botlist

Init ==
    /\ position \in [Bots -> Positions]
    /\ cachedPosition = position
    /\ onBotMoved = {}
    /\ botlist = [b \in {} |-> 0]
    /\ chunks = {}

(* _Set: a bot that is already listed is only reported. *)
Set(bot) ==
    /\ bot \notin Listed
    /\ LET ci == ChunkIndex(position[bot]) IN
          /\ botlist' = [b \in Listed \cup {bot} |-> IF b = bot THEN ci ELSE botlist[b]]
          /\ chunks' = chunks \cup {<<ci, bot>>}
    /\ onBotMoved' = onBotMoved \cup {bot}
    /\ UNCHANGED <<position, cachedPosition>>

Delete(bot) ==
    /\ bot \in Listed
    /\ botlist' = [b \in Listed \ {bot} |-> botlist[b]]
    /\ chunks' = chunks \ {<<botlist[bot], bot>>}
    /\ onBotMoved' = onBotMoved \ {bot}
    /\ UNCHANGED <<position, cachedPosition>>

\* Mutant: the bot stays filed under the chunk it left.
BotMovedTwice(bot, pos) ==
    LET ci == ChunkIndex(pos) IN
    IF <<ci, bot>> \in chunks
    THEN UNCHANGED <<botlist, chunks>>
    ELSE /\ chunks' = chunks \cup {<<ci, bot>>}
         /\ botlist' = [botlist EXCEPT ![bot] = ci]

(* The callback: nothing to do inside one chunk. *)
BotMoved(bot, pos) ==
    LET ci == ChunkIndex(pos) IN
    IF <<ci, bot>> \in chunks
    THEN UNCHANGED <<botlist, chunks>>
    ELSE /\ chunks' = (chunks \ {<<botlist[bot], bot>>}) \cup {<<ci, bot>>}
         /\ botlist' = [botlist EXCEPT ![bot] = ci]

HasMoved(bot, pos) ==
    IF cachedPosition[bot] = pos
    THEN UNCHANGED <<cachedPosition, botlist, chunks>>
    ELSE /\ cachedPosition' = [cachedPosition EXCEPT ![bot] = pos]
         /\ IF bot \in onBotMoved THEN BotMoved(bot, pos) ELSE UNCHANGED <<botlist, chunks>>

(* Teleport, and Move for a neighbouring position: both set the position   *)
(* and then look whether it changed.                                       *)
Teleport(bot, pos) ==
    /\ position' = [position EXCEPT ![bot] = pos]
    /\ HasMoved(bot, pos)
    /\ UNCHANGED onBotMoved

Next == \E bot \in Bots :
    \/ Set(bot)
    \/ Delete(bot)
    \/ \E pos \in Positions : Teleport(bot, pos)

Spec == Init /\ [][Next]_vars

----------------------------------------------------------------------------
(* The chunks of the map; a number computed from chunk coordinates outside *)
(* of it may be that of another chunk, and GetChunk returns nothing then.  *)
GetChunk(cx, cy) ==
    IF cx \in 0..(chunk_width - 1) /\ cy \in 0..(chunk_height - 1)
    THEN {b \in Bots : <<cx + cy * chunk_width, b>> \in chunks} ELSE {}

Field ==
    {p \in Positions : /\ p[1] \div ChunkSize \in 0..(chunk_width - 1)
                       /\ p[2] \div ChunkSize \in 0..(chunk_height - 1)}

Within(p, q) ==
    (p[1] - q[1]) * (p[1] - q[1]) + (p[2] - q[2]) * (p[2] - q[2]) <= q[3] * q[3]

\* Mutant: the chunks below and to the right are left out.
GetNear(q) ==
    {b \in Bots :
        /\ \E cx \in ((q[1] - q[3]) \div ChunkSize)..(q[1] \div ChunkSize),
              cy \in ((q[2] - q[3]) \div ChunkSize)..(q[2] \div ChunkSize) :
                b \in GetChunk(cx, cy)
        /\ Within(position[b], q)}

GetFromRad(q) ==
    {b \in Bots :
        /\ \E cx \in ((q[1] - q[3]) \div ChunkSize)..((q[1] + q[3]) \div ChunkSize),
              cy \in ((q[2] - q[3]) \div ChunkSize)..((q[2] + q[3]) \div ChunkSize) :
                b \in GetChunk(cx, cy)
        /\ Within(position[b], q)}

(***************************************************************************)
(* Properties.                                                             *)
(***************************************************************************)
TypeOK ==
    /\ position \in [Bots -> Positions] /\ cachedPosition \in [Bots -> Positions]
    /\ onBotMoved \subseteq Bots
    /\ Listed \subseteq Bots /\ botlist \in [Listed -> Int]
    /\ chunks \subseteq Int \X Bots

(* Whatever bots are added, moved and taken out, in or out of the map, a   *)
(* listed bot is filed under the number of the chunk it is in and under no *)
(* other, and a bot that was taken out is filed nowhere.                   *)
IndexIsExact ==
    /\ \A b \in Listed : botlist[b] = ChunkIndex(position[b])
    /\ chunks = {<<botlist[b], b>> : b \in Listed}
    /\ onBotMoved = Listed /\ cachedPosition = position

(* The container implements the directory: in the order of any calls, and  *)
(* although out-of-map bots share chunk numbers with others, GetFromRad    *)
(* finds every listed bot of the map within the radius, and no bot that is *)
(* not listed or farther away.                                             *)
Directory == INSTANCE BotDirectory WITH
    enrolled <- Listed, position <- position,
    answers <- [q \in Queries |-> GetFromRad(q)]
ImplementsDirectory == Directory!Spec
===============================================================================
