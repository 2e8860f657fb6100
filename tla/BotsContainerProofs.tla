------------------------- MODULE BotsContainerProofs -------------------------
(***************************************************************************)
(* The index of bots by chunk is exact for every set of bots, every map    *)
(* and every chunk size, and a search in it keeps the directory's promise. *)
(***************************************************************************)
EXTENDS BotsContainer, TLAPS

(* Types of the container's state and of its callbacks. *)
IndexInv == TypeOK /\ IndexIsExact

(* A chunk number is an integer, inside the map and outside. *)
LEMMA ChunkNumber == \A p \in Positions : ChunkIndex(p) \in Int
<1>1. SUFFICES ASSUME NEW p \in Positions PROVE ChunkIndex(p) \in Int
  OBVIOUS
<1>2. p[1] \in Int /\ p[2] \in Int
  BY PlacesAssumption DEF Positions
<1>3. chunk_width \in Int
  BY ChunkAssumption DEF chunk_width
<1>4. p[1] \div ChunkSize \in Int /\ p[2] \div ChunkSize \in Int
  BY <1>2, ChunkAssumption
<1> QED
  BY <1>3, <1>4 DEF ChunkIndex, ChunkIndex2

LEMMA StartIsExact == Init => IndexInv
BY DEF Init, IndexInv, TypeOK, IndexIsExact, Listed

(* One step of a caller keeps the index exact: _Set, Delete, and Move and  *)
(* Teleport with their callback.                                           *)
LEMMA StepIsExact == IndexInv /\ [Next]_vars => IndexInv'
<1> SUFFICES ASSUME IndexInv, [Next]_vars PROVE IndexInv'
  OBVIOUS
<1> USE DEF IndexInv
<1>1. CASE UNCHANGED vars
  BY <1>1 DEF vars, TypeOK, IndexIsExact, Listed
<1>2. ASSUME NEW bot \in Bots, Set(bot) PROVE IndexInv'
  <2>1. ChunkIndex(position[bot]) \in Int
    BY ChunkNumber DEF TypeOK
  <2>2. DOMAIN botlist' = Listed \cup {bot}
    BY <1>2 DEF Set
  <2>3. TypeOK'
    BY <1>2, <2>1, <2>2 DEF Set, TypeOK, Listed
  <2>4. \A b \in Listed' : botlist'[b] = ChunkIndex(position'[b])
    BY <1>2, <2>2 DEF Set, IndexIsExact, Listed
  <2>5. chunks' = {<<botlist'[b], b>> : b \in Listed'}
    BY <1>2, <2>2 DEF Set, IndexIsExact, Listed
  <2>6. onBotMoved' = Listed' /\ cachedPosition' = position'
    BY <1>2, <2>2 DEF Set, IndexIsExact, Listed
  <2> QED
    BY <2>3, <2>4, <2>5, <2>6 DEF IndexIsExact
<1>3. ASSUME NEW bot \in Bots, Delete(bot) PROVE IndexInv'
  <2>2. DOMAIN botlist' = Listed \ {bot}
    BY <1>3 DEF Delete
  <2>3. TypeOK'
    BY <1>3, <2>2 DEF Delete, TypeOK, Listed
  <2>4. \A b \in Listed' : botlist'[b] = ChunkIndex(position'[b])
    BY <1>3, <2>2 DEF Delete, IndexIsExact, Listed
  <2>5. chunks' = {<<botlist'[b], b>> : b \in Listed'}
    BY <1>3, <2>2 DEF Delete, IndexIsExact, Listed
  <2>6. onBotMoved' = Listed' /\ cachedPosition' = position'
    BY <1>3, <2>2 DEF Delete, IndexIsExact, Listed
  <2> QED
    BY <2>3, <2>4, <2>5, <2>6 DEF IndexIsExact
<1>4. ASSUME NEW bot \in Bots, NEW pos \in Positions, Teleport(bot, pos) PROVE IndexInv'
  <2> DEFINE ci == ChunkIndex(pos)
  <2>1. ci \in Int
    BY ChunkNumber
  <2>2. position' = [position EXCEPT ![bot] = pos] /\ onBotMoved' = onBotMoved
    BY <1>4 DEF Teleport
  <2>3. position'[bot] = pos /\ \A b \in Bots \ {bot} : position'[b] = position[b]
    BY <2>2 DEF TypeOK
  <2>4. cachedPosition' = position'
    <3>1. CASE cachedPosition[bot] = pos
      BY <3>1, <1>4, <2>2 DEF Teleport, HasMoved, TypeOK, IndexIsExact
    <3>2. CASE cachedPosition[bot] # pos
      BY <3>2, <1>4, <2>2 DEF Teleport, HasMoved, TypeOK, IndexIsExact
    <3> QED BY <3>1, <3>2
  <2>5. CASE botlist' = botlist /\ chunks' = chunks /\ (bot \in Listed => botlist[bot] = ci)
    <3>1. TypeOK'
      BY <2>2, <2>4, <2>5 DEF TypeOK, Listed
    <3>2. IndexIsExact'
      BY <2>2, <2>3, <2>4, <2>5 DEF TypeOK, IndexIsExact, Listed
    <3> QED BY <3>1, <3>2
  <2>6. CASE /\ bot \in Listed
             /\ chunks' = (chunks \ {<<botlist[bot], bot>>}) \cup {<<ci, bot>>}
             /\ botlist' = [botlist EXCEPT ![bot] = ci]
    <3>1. DOMAIN botlist' = Listed
      BY <2>6 DEF Listed
    <3>2. TypeOK'
      BY <2>1, <2>2, <2>4, <2>6, <3>1 DEF TypeOK, Listed
    <3>3. \A b \in Listed : botlist'[b] = ChunkIndex(position'[b])
      BY <2>3, <2>6 DEF TypeOK, IndexIsExact, Listed
    <3>4. chunks' = {<<botlist'[b], b>> : b \in Listed}
      BY <2>6 DEF TypeOK, IndexIsExact, Listed
    <3> QED
      BY <2>2, <2>4, <3>1, <3>2, <3>3, <3>4 DEF IndexIsExact, Listed
  <2>7. CASE cachedPosition[bot] = pos
    BY <1>4, <2>5, <2>7 DEF Teleport, HasMoved, IndexIsExact
  <2>8. CASE cachedPosition[bot] # pos /\ bot \notin onBotMoved
    BY <1>4, <2>5, <2>8 DEF Teleport, HasMoved, IndexIsExact
  <2>9. CASE cachedPosition[bot] # pos /\ bot \in onBotMoved
    <3>1. BotMoved(bot, pos) /\ bot \in Listed
      BY <1>4, <2>9 DEF Teleport, HasMoved, IndexIsExact
    <3>2. CASE <<ci, bot>> \in chunks
      BY <2>5, <3>1, <3>2 DEF BotMoved, IndexIsExact
    <3>3. CASE <<ci, bot>> \notin chunks
      BY <2>6, <3>1, <3>3 DEF BotMoved
    <3> QED BY <3>2, <3>3
  <2> QED BY <2>7, <2>8, <2>9
<1> QED
  BY <1>1, <1>2, <1>3, <1>4 DEF Next

(* The container's state keeps its types, and the index is exact: a listed *)
(* bot is filed under the chunk it is in and under no other, whatever      *)
(* calls of _Set, Delete, Move and Teleport are made in whatever order.    *)
THEOREM IndexCorrect == Spec => []IndexIsExact
<1>1. Spec => []IndexInv
  BY StartIsExact, StepIsExact, PTL DEF Spec
<1> QED
  BY <1>1, PTL DEF IndexInv

----------------------------------------------------------------------------
(* Rounding down to chunk coordinates keeps the order of coordinates, also *)
(* for negative ones.                                                      *)
LEMMA ChunkOrder == \A a, b \in Int : a <= b => a \div ChunkSize <= b \div ChunkSize
BY ChunkAssumption

(* A point within the radius is within the square GetFromRad searches. *)
LEMMA SquareHoldsCircle ==
  ASSUME NEW d \in Int, NEW e \in Int, NEW r \in Nat, d * d + e * e <= r * r
  PROVE  -r <= d /\ d <= r
OBVIOUS

(* A search finds every listed bot of the field within the radius and      *)
(* nobody else: GetFromRad walks over the chunks of the square around the  *)
(* circle, and an exact index has the bot under one of them.               *)
LEMMA SearchKeepsPromise ==
  IndexInv => Directory!Promise(Listed, position, [q \in Queries |-> GetFromRad(q)])
<1> SUFFICES ASSUME IndexInv, NEW q \in Queries
             PROVE  /\ GetFromRad(q) \subseteq {b \in Listed : Directory!Within(position[b], q)}
                    /\ {b \in Listed : position[b] \in Field /\ Directory!Within(position[b], q)}
                          \subseteq GetFromRad(q)
  BY DEF Directory!Promise
<1>1. q[1] \in Int /\ q[2] \in Int /\ q[3] \in Nat
  BY QueriesAssumption
<1>2. GetFromRad(q) \subseteq {b \in Listed : Directory!Within(position[b], q)}
  BY DEF IndexInv, IndexIsExact, GetFromRad, GetChunk, Within, Directory!Within
<1>3. ASSUME NEW b \in Listed, position[b] \in Field, Directory!Within(position[b], q)
      PROVE  b \in GetFromRad(q)
  <2> DEFINE x == position[b][1]
             y == position[b][2]
             cx == x \div ChunkSize
             cy == y \div ChunkSize
  <2>1. b \in Bots /\ x \in Int /\ y \in Int
    BY PlacesAssumption DEF IndexInv, TypeOK, Positions
  <2>2. /\ -q[3] <= x - q[1] /\ x - q[1] <= q[3]
        /\ -q[3] <= y - q[2] /\ y - q[2] <= q[3]
    <3> HIDE DEF x, y
    <3>1. (x - q[1]) * (x - q[1]) + (y - q[2]) * (y - q[2]) <= q[3] * q[3]
      BY <1>3 DEF Directory!Within, x, y
    <3>2. (y - q[2]) * (y - q[2]) + (x - q[1]) * (x - q[1]) <= q[3] * q[3]
      BY <1>1, <2>1, <3>1
    <3>3. x - q[1] \in Int /\ y - q[2] \in Int
      BY <1>1, <2>1
    <3> QED
      BY <1>1, <3>1, <3>2, <3>3, SquareHoldsCircle
  <2>3. /\ cx \in ((q[1] - q[3]) \div ChunkSize)..((q[1] + q[3]) \div ChunkSize)
        /\ cy \in ((q[2] - q[3]) \div ChunkSize)..((q[2] + q[3]) \div ChunkSize)
    <3> HIDE DEF x, y
    <3>1. q[1] - q[3] \in Int /\ q[1] + q[3] \in Int /\ q[2] - q[3] \in Int /\ q[2] + q[3] \in Int
      BY <1>1
    <3>2. q[1] - q[3] <= x /\ x <= q[1] + q[3] /\ q[2] - q[3] <= y /\ y <= q[2] + q[3]
      BY <1>1, <2>1, <2>2
    <3>3. /\ (q[1] - q[3]) \div ChunkSize <= cx /\ cx <= (q[1] + q[3]) \div ChunkSize
          /\ (q[2] - q[3]) \div ChunkSize <= cy /\ cy <= (q[2] + q[3]) \div ChunkSize
      BY <2>1, <3>1, <3>2, ChunkOrder
    <3> QED
      BY <2>1, <3>1, <3>3, ChunkAssumption
  <2>4. cx \in 0..(chunk_width - 1) /\ cy \in 0..(chunk_height - 1)
    BY <1>3 DEF Field
  <2>5. <<cx + cy * chunk_width, b>> \in chunks
    BY DEF IndexInv, IndexIsExact, ChunkIndex, ChunkIndex2
  <2>6. b \in GetChunk(cx, cy)
    BY <2>1, <2>4, <2>5 DEF GetChunk
  <2>7. Within(position[b], q)
    BY <1>3 DEF Within, Directory!Within
  <2> QED
    BY <2>1, <2>3, <2>6, <2>7 DEF GetFromRad
<1> QED
  BY <1>2, <1>3

(* The container implements the directory, for every map, chunk size, set  *)
(* of bots and set of queries: _Set enrolls, Delete removes, Move and      *)
(* Teleport travel, and after each of them GetFromRad keeps the promise.   *)
THEOREM ContainerIsDirectory == Spec => ImplementsDirectory
<1>1. Init => Directory!Init
  <2> SUFFICES ASSUME Init PROVE Directory!Init
    OBVIOUS
  <2>1. Listed = {} /\ position \in [Bots -> Positions]
    BY DEF Init, Listed
  <2>2. Directory!Promise(Listed, position, [q \in Queries |-> GetFromRad(q)])
    BY StartIsExact, SearchKeepsPromise
  <2> QED
    BY <2>1, <2>2 DEF Directory!Init
<1>2. IndexInv /\ IndexInv' /\ [Next]_vars => [Directory!Next]_(Directory!directoryVars)
  <2> SUFFICES ASSUME IndexInv, IndexInv', [Next]_vars
               PROVE  Directory!Next \/ UNCHANGED Directory!directoryVars
    OBVIOUS
  <2>1. CASE UNCHANGED vars
    <3>1. \A q : GetFromRad(q)' = GetFromRad(q)
      BY <2>1 DEF vars, GetFromRad, GetChunk
    <3> QED
      BY <2>1, <3>1 DEF vars, Listed, Directory!directoryVars
  <2>2. Directory!Promise(Listed, position, [q \in Queries |-> GetFromRad(q)])'
    BY SearchKeepsPromise, PTL
  <2>3. ASSUME NEW bot \in Bots, Set(bot) PROVE Directory!Enroll(bot)
    BY <2>3 DEF Set, Listed, Directory!Enroll
  <2>4. ASSUME NEW bot \in Bots, Delete(bot) PROVE Directory!Remove(bot)
    BY <2>4 DEF Delete, Listed, Directory!Remove
  <2>5. ASSUME NEW bot \in Bots, NEW pos \in Positions, Teleport(bot, pos)
        PROVE Directory!Travel(bot)
    <3>1. DOMAIN botlist' = DOMAIN botlist
      BY <2>5 DEF Teleport, HasMoved, BotMoved
    <3>2. position' = [position EXCEPT ![bot] = pos]
      BY <2>5 DEF Teleport
    <3> QED
      BY <3>1, <3>2 DEF Listed, Directory!Travel
  <2> QED
    BY <2>1, <2>2, <2>3, <2>4, <2>5 DEF Next, Directory!Next, Directory!Promise
<1>3. Spec => []IndexInv
  BY StartIsExact, StepIsExact, PTL DEF Spec
<1> QED
  BY <1>1, <1>2, <1>3, PTL DEF Spec, ImplementsDirectory, Directory!Spec
===============================================================================
