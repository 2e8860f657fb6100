------------------------ MODULE SessionLifecycleProofs ------------------------
(***************************************************************************)
(* Proofs about SessionLifecycle: the types, that active_players and the   *)
(* entities agree, that a dirty entity can be found by the next flush,     *)
(* that what an offline player will have on disk is its last state, and    *)
(* that the hub's two maps agree, for any number of sessions, players and  *)
(* queue slots.                                                            *)
(***************************************************************************)
EXTENDS SessionLifecycle, FiniteSetTheorems, SequenceTheorems, TLAPS

\* A task that has read its player knows it, and keeps knowing it.
TaskKnowsPlayer ==
    \A s \in Sessions :
        conn[s] \in {"read", "kick", "bound", "playing", "leaving"} => login[s] \in Players

\* Only a task that got as far as the select loop has messages in the queue.
QueueKnowsPlayer ==
    \A i \in DOMAIN lifecycle :
        /\ conn[lifecycle[i].session] \in {"playing", "leaving", "closing", "gone", "failed"}
        /\ login[lifecycle[i].session] \in Players

\* ActiveOwnsEntity is needed for the types: disconnect_in_tick saves the
\* entity of the active player without asking whether there is one.
TypeInv ==
    TypeOK /\ IsFiniteSet(dirty) /\ TaskKnowsPlayer /\ QueueKnowsPlayer /\ ActiveOwnsEntity

\* The history variable is the progress of the living entity.
EntityIsLast == \A p \in Players : entity[p] # None => entity[p].value = last[p]

GameInv == DirtyIsRegistered /\ EntityIsLast /\ OfflineIsSaved

\* The hub has an entry for every task that runs, and binds it to a player
\* only when the task has read one.
TaskIsOpen ==
    \A s \in Sessions :
        /\ s \in open <=> conn[s] \notin {"none", "gone"}
        /\ conn[s] \in {"none", "preauth", "read"} => bound[s] = None

HubInv == TaskIsOpen /\ HubIsConsistent
------------------------------------------------------------------------------
Task(s) ==
    \/ OpenSession(s) \/ BindPlayer(s) \/ KickPrevious(s) \/ EnqueueConnect(s)
    \/ EnqueueDisconnect(s) \/ CloseSession(s) \/ LeaveLoop(s) \/ FailWithError(s)
    \/ \E p \in Players : Authenticate(s, p)

\* What Connect and modify_player make of an entity.
LEMMA TakenOverIs ==
    ASSUME NEW e \in Entities, NEW s \in Sessions
    PROVE  /\ TakenOver(e, s) \in Entities
           /\ TakenOver(e, s).session = s
           /\ TakenOver(e, s).incarnation = s
           /\ TakenOver(e, s).dirty = FALSE
           /\ TakenOver(e, s).value = e.value
BY DEF TakenOver, Entities

LEMMA SpawnedIs ==
    ASSUME NEW r \in Rows, NEW s \in Sessions
    PROVE  /\ Spawned(r, s) \in Entities
           /\ Spawned(r, s).session = s
           /\ Spawned(r, s).incarnation = s
           /\ Spawned(r, s).dirty = FALSE
           /\ Spawned(r, s).value = r.value
BY DEF Spawned, Entities, Rows

LEMMA ModifiedIs ==
    ASSUME NEW e \in Entities, NEW b \in BOOLEAN, e.value < MaxValue
    PROVE  /\ Modified(e, b) \in Entities
           /\ Modified(e, b).session = e.session
           /\ Modified(e, b).incarnation = e.incarnation
           /\ Modified(e, b).value = e.value + 1
BY CapacitiesAssumption DEF Modified, Entities

LEMMA OfflineIs ==
    ASSUME NEW e \in Entities
    PROVE  /\ [e EXCEPT !.session = None] \in Entities
           /\ [e EXCEPT !.session = None].session = None
           /\ [e EXCEPT !.session = None].incarnation = e.incarnation
           /\ [e EXCEPT !.session = None].dirty = e.dirty
           /\ [e EXCEPT !.session = None].value = e.value
BY DEF Entities

LEMMA CleanIs ==
    ASSUME NEW e \in Entities
    PROVE  /\ [e EXCEPT !.dirty = FALSE] \in Entities
           /\ [e EXCEPT !.dirty = FALSE].session = e.session
           /\ [e EXCEPT !.dirty = FALSE].incarnation = e.incarnation
           /\ [e EXCEPT !.dirty = FALSE].dirty = FALSE
           /\ [e EXCEPT !.dirty = FALSE].value = e.value
BY DEF Entities

\* flush_dirty_players_once appends saves of living players only, clears the
\* dirty flag of entities that it saves and leaves everything else alone.
LEMMA FlushEffect ==
    ASSUME TypeInv, FlushDirtyPlayers
    PROVE  /\ saves' \in Seq([player : Players, row : Rows])
           /\ Len(saves') >= Len(saves)
           /\ \A i \in 1..Len(saves) : saves'[i] = saves[i]
           /\ \A i \in 1..Len(saves') : i > Len(saves) => entity[saves'[i].player] # None
           /\ DOMAIN entity' = Players
           /\ \A p \in Players :
                \/ entity'[p] = entity[p]
                \/ entity[p] # None /\ entity'[p] = [entity[p] EXCEPT !.dirty = FALSE]
           /\ dirty' \subseteq dirty
           /\ \A p \in Players :
                entity[p] # None /\ entity[p].dirty /\ <<p, entity[p].incarnation>> \in dirty \ dirty'
                    => entity'[p] = [entity[p] EXCEPT !.dirty = FALSE]
<1>1. PICK admitted \in SUBSET dirty :
        LET valid == {d \in admitted : Snapshotable(d)}
        IN  /\ \E order \in [1..Cardinality(valid) -> valid] :
                 saves' = saves \o [i \in DOMAIN order |->
                         [player |-> order[i][1], row |-> RowOf(entity[order[i][1]])]]
            /\ entity' = [p \in Players |->
                    IF \E d \in valid : d[1] = p THEN [entity[p] EXCEPT !.dirty = FALSE]
                    ELSE entity[p]]
            /\ RequeueDirty(admitted)
  BY DEF FlushDirtyPlayers
<1> DEFINE valid == {d \in admitted : Snapshotable(d)}
<1>2. PICK order \in [1..Cardinality(valid) -> valid] :
        saves' = saves \o [i \in DOMAIN order |->
                         [player |-> order[i][1], row |-> RowOf(entity[order[i][1]])]]
  BY <1>1
<1> DEFINE n == Cardinality(valid)
           new == [i \in 1..n |-> [player |-> order[i][1], row |-> RowOf(entity[order[i][1]])]]
<1>3. valid \subseteq Players \X Sessions
  BY DEF TypeInv, TypeOK
<1>4. n \in Nat
  <2>1. IsFiniteSet(valid)
    BY FS_Subset DEF TypeInv
  <2> QED
    BY <2>1, FS_CardinalityType
<1>5. ASSUME NEW d \in valid
      PROVE  d[1] \in Players /\ entity[d[1]] \in Entities /\ entity[d[1]] # None
  BY <1>3 DEF Snapshotable, TypeInv, TypeOK
<1>6. ASSUME NEW e \in Entities
      PROVE  RowOf(e) \in Rows
  BY DEF Entities, RowOf, Rows
<1>7. new \in Seq([player : Players, row : Rows]) /\ Len(new) = n
  <2>1. ASSUME NEW i \in 1..n
        PROVE  new[i] \in [player : Players, row : Rows]
    <3> DEFINE d == order[i]
    <3>1. d \in valid
      OBVIOUS
    <3> HIDE DEF d, valid
    <3>2. d[1] \in Players /\ RowOf(entity[d[1]]) \in Rows
      BY <3>1, <1>5, <1>6
    <3>3. new[i] = [player |-> d[1], row |-> RowOf(entity[d[1]])]
      BY DEF d
    <3> HIDE DEF new
    <3> QED
      BY <3>2, <3>3
  <2> HIDE DEF valid, n
  <2> QED
    BY <2>1, <1>4
<1>8. \A i \in 1..n : entity[new[i].player] # None
  BY <1>5
<1>9. saves' = saves \o new
  BY <1>2
<1>10. saves \in Seq([player : Players, row : Rows])
  BY DEF TypeInv, TypeOK
<1>11. \A p \in Players :
         \/ entity'[p] = entity[p]
         \/ entity[p] # None /\ entity'[p] = [entity[p] EXCEPT !.dirty = FALSE]
  BY <1>1, <1>5
<1>12. \A p \in Players :
         entity[p] # None /\ entity[p].dirty /\ <<p, entity[p].incarnation>> \in dirty \ dirty'
                    => entity'[p] = [entity[p] EXCEPT !.dirty = FALSE]
  <2>1. SUFFICES ASSUME NEW p \in Players, entity[p] # None, entity[p].dirty,
                        <<p, entity[p].incarnation>> \in dirty \ dirty'
                 PROVE  entity'[p] = [entity[p] EXCEPT !.dirty = FALSE]
    OBVIOUS
  <2>2. <<p, entity[p].incarnation>> \in admitted
    BY <1>1, <2>1 DEF RequeueDirty
  <2>3. <<p, entity[p].incarnation>> \in valid
    BY <2>2, <2>1 DEF Snapshotable
  <2> QED
    BY <2>3, <1>1
<1> HIDE DEF new, n, valid
<1>13. /\ saves' \in Seq([player : Players, row : Rows])
       /\ Len(saves') = Len(saves) + n
       /\ \A i \in 1..Len(saves) : saves'[i] = saves[i]
       /\ \A i \in 1..Len(saves') : i > Len(saves) => saves'[i] = new[i - Len(saves)]
  BY <1>4, <1>7, <1>9, <1>10
<1>14. \A i \in 1..Len(saves') : i > Len(saves) => entity[saves'[i].player] # None
  BY <1>13, <1>8, <1>4, <1>10
<1>15. DOMAIN entity' = Players /\ dirty' \subseteq dirty
  BY <1>1 DEF RequeueDirty
<1>16. Len(saves') >= Len(saves)
  BY <1>13, <1>4, <1>10
<1> QED
  BY <1>11, <1>12, <1>13, <1>14, <1>15, <1>16
------------------------------------------------------------------------------
\* The initial state, and every step, keep the types.
LEMMA TypeInit == Init => TypeInv
<1> SUFFICES ASSUME Init PROVE TypeInv
  OBVIOUS
<1>1. [value |-> 0, running |-> FALSE] \in Rows
  BY CapacitiesAssumption DEF Rows
<1>2. TypeOK
  BY <1>1, CapacitiesAssumption DEF Init, TypeOK, TaskStates
<1>3. IsFiniteSet(dirty)
  BY FS_EmptySet DEF Init
<1>4. TaskKnowsPlayer /\ QueueKnowsPlayer /\ ActiveOwnsEntity
  BY DEF Init, TaskKnowsPlayer, QueueKnowsPlayer, ActiveOwnsEntity
<1> QED
  BY <1>2, <1>3, <1>4 DEF TypeInv

LEMMA MessageIs ==
    ASSUME TypeOK, NEW i \in DOMAIN lifecycle
    PROVE  /\ lifecycle[i].kind \in {"connect", "disconnect"}
           /\ lifecycle[i].session \in Sessions
<1> DEFINE M == [kind : {"connect", "disconnect"}, session : Sessions]
<1>1. lifecycle \in Seq(M)
  BY DEF TypeOK
<1>2. lifecycle[i] \in M
  <2> HIDE DEF M
  <2> QED
    BY <1>1
<1> QED
  BY <1>2

LEMMA TypeTask ==
    ASSUME TypeInv, NEW s \in Sessions, Task(s)
    PROVE  TypeInv'
<1> USE DEF TypeInv
<1>1. UNCHANGED <<gameVars, storeVars>>
  BY DEF Task, OpenSession, Authenticate, BindPlayer, KickPrevious, EnqueueConnect, LeaveLoop,
         FailWithError, EnqueueDisconnect, CloseSession
<1>2. UNCHANGED <<active, entity, dirty, last, saves, db>>
  BY <1>1 DEF gameVars, storeVars
<1>3. conn' \in [Sessions -> TaskStates] /\ \A t \in Sessions \ {s} : conn'[t] = conn[t]
  BY DEF Task, OpenSession, Authenticate, BindPlayer, KickPrevious, EnqueueConnect, LeaveLoop,
         FailWithError, EnqueueDisconnect, CloseSession, TypeOK, TaskStates
<1>4. /\ login' \in [Sessions -> Players \cup {None}]
      /\ \A t \in Sessions \ {s} : login'[t] = login[t]
      /\ row' \in [Sessions -> Rows]
  <2>1. (\E p \in Players : Authenticate(s, p)) \/ UNCHANGED <<login, row>>
    BY DEF Task, OpenSession, BindPlayer, KickPrevious, EnqueueConnect, LeaveLoop,
           FailWithError, EnqueueDisconnect, CloseSession
  <2>2. CASE UNCHANGED <<login, row>>
    BY <2>2 DEF TypeOK
  <2>3. CASE \E p \in Players : Authenticate(s, p)
    BY <2>3 DEF TypeOK, Authenticate
  <2> QED
    BY <2>1, <2>2, <2>3
<1>5. /\ open' \in SUBSET Sessions /\ kicked' \in SUBSET Sessions
      /\ bound' \in [Sessions -> Players \cup {None}]
      /\ current' \in [Players -> Sessions \cup {None}]
      /\ previous' \in [Sessions -> Sessions \cup {None}]
  <2>1. \/ BindPlayer(s) \/ CloseSession(s) \/ OpenSession(s) \/ KickPrevious(s)
        \/ UNCHANGED <<open, kicked, bound, current, previous>>
    BY DEF Task, EnqueueConnect, LeaveLoop, FailWithError, EnqueueDisconnect, Authenticate,
           hubVars
  <2>2. CASE BindPlayer(s)
    <3>1. login[s] \in Players
      BY <2>2 DEF BindPlayer, TaskKnowsPlayer
    <3> QED
      BY <2>2, <3>1 DEF BindPlayer, TypeOK
  <2>3. CASE CloseSession(s)
    BY <2>3 DEF CloseSession, TypeOK
  <2>4. CASE OpenSession(s) \/ KickPrevious(s)
    BY <2>4 DEF OpenSession, KickPrevious, TypeOK
  <2>5. CASE UNCHANGED <<open, kicked, bound, current, previous>>
    BY <2>5 DEF TypeOK
  <2> QED
    BY <2>1, <2>2, <2>3, <2>4, <2>5
<1>6. /\ lifecycle' \in Seq([kind : {"connect", "disconnect"}, session : Sessions])
      /\ \/ lifecycle' = lifecycle
         \/ /\ conn[s] \in {"bound", "leaving"} /\ conn'[s] \in {"playing", "closing"}
            /\ login' = login
            /\ \E kind \in {"connect", "disconnect"} :
                   lifecycle' = Append(lifecycle, Message(kind, s))
  <2>1. EnqueueConnect(s) \/ EnqueueDisconnect(s) \/ lifecycle' = lifecycle
    BY DEF Task, OpenSession, Authenticate, BindPlayer, KickPrevious, LeaveLoop,
           FailWithError, CloseSession
  <2>2. \A kind \in {"connect", "disconnect"} :
            Message(kind, s) \in [kind : {"connect", "disconnect"}, session : Sessions]
    BY DEF Message
  <2>3. CASE EnqueueConnect(s) \/ EnqueueDisconnect(s)
    <3>1. PICK kind \in {"connect", "disconnect"} : lifecycle' = Append(lifecycle, Message(kind, s))
      BY <2>3 DEF EnqueueConnect, EnqueueDisconnect
    <3>2. lifecycle' \in Seq([kind : {"connect", "disconnect"}, session : Sessions])
      BY <3>1, <2>2, AppendProperties DEF TypeOK
    <3>3. /\ conn[s] \in {"bound", "leaving"} /\ conn'[s] \in {"playing", "closing"}
          /\ login' = login
      BY <2>3 DEF EnqueueConnect, EnqueueDisconnect, TypeOK
    <3> QED
      BY <3>1, <3>2, <3>3
  <2> QED
    BY <2>1, <2>3 DEF TypeOK
<1>7. TypeOK'
  BY <1>2, <1>3, <1>4, <1>5, <1>6 DEF TypeOK
<1>8. TaskKnowsPlayer'
  <2>1. conn'[s] \in {"read", "kick", "bound", "playing", "leaving"} => login'[s] \in Players
    BY DEF Task, OpenSession, Authenticate, BindPlayer, KickPrevious, EnqueueConnect, LeaveLoop,
           FailWithError, EnqueueDisconnect, CloseSession, TypeOK, TaskKnowsPlayer
  <2> QED
    BY <2>1, <1>3, <1>4 DEF TaskKnowsPlayer
<1>9. QueueKnowsPlayer'
  <2>1. conn[s] \in {"playing", "leaving", "closing", "gone", "failed"} =>
            /\ conn'[s] \in {"playing", "leaving", "closing", "gone", "failed"}
            /\ login'[s] = login[s]
    BY DEF Task, OpenSession, Authenticate, BindPlayer, KickPrevious, EnqueueConnect, LeaveLoop,
           FailWithError, EnqueueDisconnect, CloseSession, TypeOK
  <2>2. \A i \in DOMAIN lifecycle :
            /\ conn'[lifecycle[i].session] \in {"playing", "leaving", "closing", "gone", "failed"}
            /\ login'[lifecycle[i].session] \in Players
    <3>1. SUFFICES ASSUME NEW i \in DOMAIN lifecycle
                   PROVE  /\ conn'[lifecycle[i].session] \in
                               {"playing", "leaving", "closing", "gone", "failed"}
                          /\ login'[lifecycle[i].session] \in Players
      OBVIOUS
    <3>2. lifecycle[i].session \in Sessions
      BY MessageIs
    <3> QED
      BY <3>2, <2>1, <1>3, <1>4 DEF QueueKnowsPlayer
  <2>3. CASE lifecycle' = lifecycle
    BY <2>2, <2>3 DEF QueueKnowsPlayer
  <2>4. CASE lifecycle' # lifecycle
    <3>1. PICK kind \in {"connect", "disconnect"} :
             lifecycle' = Append(lifecycle, Message(kind, s))
      BY <1>6, <2>4
    <3> DEFINE m == Message(kind, s)
    <3>2. m.session = s
      BY DEF Message
    <3>3. conn'[s] \in {"playing", "closing"} /\ login'[s] \in Players
      BY <1>6, <2>4 DEF TaskKnowsPlayer
    <3> HIDE DEF m
    <3>4. \A i \in DOMAIN lifecycle' :
             (i \in DOMAIN lifecycle /\ lifecycle'[i] = lifecycle[i]) \/ lifecycle'[i] = m
      BY <3>1 DEF TypeOK, m
    <3> QED
      BY <2>2, <3>2, <3>3, <3>4 DEF QueueKnowsPlayer
  <2> QED
    BY <2>3, <2>4
<1>10. ActiveOwnsEntity'
  BY <1>2 DEF ActiveOwnsEntity
<1> QED
  BY <1>2, <1>7, <1>8, <1>9, <1>10 DEF TypeInv

\* The oldest lifecycle message is of a session that has a player.
LEMMA ApplyEffect ==
    ASSUME TypeInv, ApplyLifecycle
    PROVE  /\ \E s \in Sessions, p \in Players : ApplyConnect(s, p) \/ ApplyDisconnect(s, p)
           /\ lifecycle' \in Seq([kind : {"connect", "disconnect"}, session : Sessions])
           /\ \A i \in DOMAIN lifecycle' : \E j \in DOMAIN lifecycle : lifecycle'[i] = lifecycle[j]
           /\ UNCHANGED <<conn, login, row, previous, open, bound, current, kicked, db>>
<1> DEFINE M == [kind : {"connect", "disconnect"}, session : Sessions]
<1>1. lifecycle \in Seq(M) /\ lifecycle # <<>> /\ lifecycle' = Tail(lifecycle)
  BY DEF TypeInv, TypeOK, ApplyLifecycle
<1> HIDE DEF M
<1>2. 1 \in DOMAIN lifecycle /\ Head(lifecycle) = lifecycle[1] /\ lifecycle' \in Seq(M)
  BY <1>1
<1>3. \A i \in DOMAIN lifecycle' : \E j \in DOMAIN lifecycle : lifecycle'[i] = lifecycle[j]
  <2>1. SUFFICES ASSUME NEW i \in DOMAIN lifecycle'
                 PROVE  \E j \in DOMAIN lifecycle : lifecycle'[i] = lifecycle[j]
    OBVIOUS
  <2>2. i + 1 \in DOMAIN lifecycle /\ lifecycle'[i] = lifecycle[i + 1]
    BY <1>1
  <2> QED
    BY <2>2
<1>4. lifecycle[1].session \in Sessions /\ login[lifecycle[1].session] \in Players
  BY <1>2, MessageIs DEF TypeInv, QueueKnowsPlayer
<1>5. \/ ApplyConnect(lifecycle[1].session, login[lifecycle[1].session])
      \/ ApplyDisconnect(lifecycle[1].session, login[lifecycle[1].session])
  BY <1>2 DEF ApplyLifecycle
<1>6. UNCHANGED <<conn, login, row, previous, open, bound, current, kicked, db>>
  BY DEF ApplyLifecycle, taskVars, hubVars
<1> QED
  BY <1>2, <1>3, <1>4, <1>5, <1>6 DEF M

\* What Connect and Disconnect do to the player they are about.
LEMMA ConnectEffect ==
    ASSUME TypeInv, NEW s \in Sessions, NEW p \in Players, ApplyConnect(s, p), s \in open
    PROVE  /\ active' = [active EXCEPT ![p] = s]
           /\ entity' \in [Players -> Entities \cup {None}]
           /\ \A q \in Players \ {p} : entity'[q] = entity[q]
           /\ entity'[p] # None /\ entity'[p] \in Entities
           /\ entity'[p].session = s /\ entity'[p].incarnation = s
           /\ entity'[p].dirty = FALSE
           /\ last' \in [Players -> 0..MaxValue]
           /\ \A q \in Players \ {p} : last'[q] = last[q]
           /\ IF entity[p] # None THEN entity'[p].value = entity[p].value /\ last'[p] = last[p]
              ELSE entity'[p].value = last'[p]
           /\ UNCHANGED <<dirty, saves>>
<1> DEFINE new == IF entity[p] # None THEN TakenOver(entity[p], s) ELSE Spawned(row[s], s)
<1>1. /\ active' = [active EXCEPT ![p] = s]
      /\ entity' = [entity EXCEPT ![p] = new]
      /\ last' = [last EXCEPT ![p] = IF entity[p] # None THEN last[p] ELSE row[s].value]
      /\ UNCHANGED <<dirty, saves>>
  BY DEF ApplyConnect
<1>2. row[s] \in Rows /\ row[s].value \in 0..MaxValue
  BY DEF TypeInv, TypeOK, Rows
<1>3. entity[p] # None => entity[p] \in Entities
  BY DEF TypeInv, TypeOK
<1>4. /\ new \in Entities /\ new.session = s /\ new.incarnation = s /\ new.dirty = FALSE
      /\ entity[p] # None => new.value = entity[p].value
      /\ entity[p] = None => new.value = row[s].value
  BY <1>2, <1>3, TakenOverIs, SpawnedIs
<1> HIDE DEF new
<1>5. new # None
  BY <1>4, NoneAssumption
<1>6. entity \in [Players -> Entities \cup {None}] /\ last \in [Players -> 0..MaxValue]
  BY DEF TypeInv, TypeOK
<1>7. entity' \in [Players -> Entities \cup {None}] /\ entity'[p] = new
      /\ \A q \in Players \ {p} : entity'[q] = entity[q]
  BY <1>1, <1>4, <1>6
<1>8. /\ last' \in [Players -> 0..MaxValue]
      /\ \A q \in Players \ {p} : last'[q] = last[q]
      /\ last'[p] = IF entity[p] # None THEN last[p] ELSE row[s].value
  BY <1>1, <1>2, <1>6
<1> QED
  BY <1>1, <1>4, <1>5, <1>7, <1>8

LEMMA DisconnectEffect ==
    ASSUME TypeInv, NEW s \in Sessions, NEW p \in Players, ApplyDisconnect(s, p), active[p] = s
    PROVE  /\ active' = [active EXCEPT ![p] = None]
           /\ entity[p] \in Entities /\ entity[p] # None
           /\ entity' \in [Players -> Entities \cup {None}]
           /\ \A q \in Players \ {p} : entity'[q] = entity[q]
           /\ entity'[p] # None => entity'[p] = [entity[p] EXCEPT !.session = None]
           /\ \E w \in [player : Players, row : Rows] :
                saves' = Append(saves, w) /\ w.player = p /\ w.row.value = entity[p].value
           /\ saves' \in Seq([player : Players, row : Rows])
           /\ UNCHANGED <<dirty, last>>
<1>1. active[p] # None
  BY SessionsAssumption
<1>2. entity[p] \in Entities /\ entity[p] # None
  BY <1>1 DEF TypeInv, TypeOK, ActiveOwnsEntity
<1> DEFINE new == IF entity[p].running THEN [entity[p] EXCEPT !.session = None] ELSE None
           w == [player |-> p, row |-> RowOf(entity[p])]
<1>3. /\ active' = [active EXCEPT ![p] = None]
      /\ saves' = Append(saves, w)
      /\ entity' = [entity EXCEPT ![p] = new]
      /\ UNCHANGED <<dirty, last>>
  BY DEF ApplyDisconnect, IsActiveSession, SaveOnLeave
<1>4. RowOf(entity[p]) \in Rows /\ RowOf(entity[p]).value = entity[p].value
  BY <1>2 DEF Entities, Rows, RowOf
<1>5. w \in [player : Players, row : Rows] /\ w.player = p /\ w.row.value = entity[p].value
  BY <1>4
<1>6. new \in Entities \cup {None} /\ (new # None => new = [entity[p] EXCEPT !.session = None])
  BY <1>2, OfflineIs
<1> HIDE DEF new, w
<1>7. /\ entity \in [Players -> Entities \cup {None}]
      /\ saves \in Seq([player : Players, row : Rows])
  BY DEF TypeInv, TypeOK
<1>8. /\ entity' \in [Players -> Entities \cup {None}] /\ entity'[p] = new
      /\ \A q \in Players \ {p} : entity'[q] = entity[q]
  BY <1>3, <1>6, <1>7
<1>9. saves' \in Seq([player : Players, row : Rows])
  BY <1>3, <1>5, <1>7, AppendProperties
<1> QED
  BY <1>2, <1>3, <1>5, <1>6, <1>8, <1>9

LEMMA TypeApply ==
    ASSUME TypeInv, ApplyLifecycle
    PROVE  TypeInv'
<1> USE DEF TypeInv
<1>1. /\ lifecycle' \in Seq([kind : {"connect", "disconnect"}, session : Sessions])
      /\ \A i \in DOMAIN lifecycle' : \E j \in DOMAIN lifecycle : lifecycle'[i] = lifecycle[j]
      /\ UNCHANGED <<conn, login, row, previous, open, bound, current, kicked, db>>
  BY ApplyEffect
<1>2. PICK s \in Sessions, p \in Players : ApplyConnect(s, p) \/ ApplyDisconnect(s, p)
  BY ApplyEffect
<1>3. TaskKnowsPlayer' /\ QueueKnowsPlayer'
  BY <1>1 DEF TaskKnowsPlayer, QueueKnowsPlayer
<1>4. SUFFICES /\ active' \in [Players -> Sessions \cup {None}]
               /\ entity' \in [Players -> Entities \cup {None}]
               /\ dirty' = dirty
               /\ saves' \in Seq([player : Players, row : Rows])
               /\ last' \in [Players -> 0..MaxValue]
               /\ ActiveOwnsEntity'
  BY <1>1, <1>3 DEF TypeOK
<1>5. CASE UNCHANGED <<gameVars, saves>>
  BY <1>5 DEF gameVars, TypeOK, ActiveOwnsEntity
<1>6. CASE ApplyConnect(s, p) /\ s \in open
  <2>1. /\ active' = [active EXCEPT ![p] = s]
        /\ entity' \in [Players -> Entities \cup {None}]
        /\ \A q \in Players \ {p} : entity'[q] = entity[q]
        /\ entity'[p] # None
        /\ entity'[p].session = s /\ entity'[p].incarnation = s
        /\ last' \in [Players -> 0..MaxValue]
        /\ UNCHANGED <<dirty, saves>>
    BY <1>6, ConnectEffect
  <2>2. /\ active' \in [Players -> Sessions \cup {None}]
        /\ active'[p] = s /\ \A q \in Players \ {p} : active'[q] = active[q]
    BY <2>1 DEF TypeOK
  <2>3. ActiveOwnsEntity'
    BY <2>1, <2>2 DEF ActiveOwnsEntity
  <2> QED
    BY <2>1, <2>2, <2>3 DEF TypeOK
<1>7. CASE ApplyDisconnect(s, p) /\ active[p] = s
  <2>1. /\ active' = [active EXCEPT ![p] = None]
        /\ entity[p] \in Entities
        /\ entity' \in [Players -> Entities \cup {None}]
        /\ \A q \in Players \ {p} : entity'[q] = entity[q]
        /\ entity'[p] # None => entity'[p] = [entity[p] EXCEPT !.session = None]
        /\ saves' \in Seq([player : Players, row : Rows])
        /\ UNCHANGED <<dirty, last>>
    BY <1>7, DisconnectEffect
  <2>2. /\ active' \in [Players -> Sessions \cup {None}]
        /\ active'[p] = None /\ \A q \in Players \ {p} : active'[q] = active[q]
    BY <2>1 DEF TypeOK
  <2>3. entity'[p] # None => entity'[p].session = None
    BY <2>1, OfflineIs
  <2>4. ActiveOwnsEntity'
    BY <2>1, <2>2, <2>3 DEF ActiveOwnsEntity
  <2> QED
    BY <2>1, <2>2, <2>4 DEF TypeOK
<1> QED
  BY <1>2, <1>5, <1>6, <1>7 DEF ApplyConnect, ApplyDisconnect, IsActiveSession

\* modify_player touches one entity, its registration and the history.
LEMMA ModifyEffect ==
    ASSUME TypeInv, NEW p \in Players, ModifyPlayer(p)
    PROVE  /\ entity[p] # None /\ entity[p] \in Entities
           /\ entity' \in [Players -> Entities \cup {None}]
           /\ \A q \in Players \ {p} : entity'[q] = entity[q]
           /\ entity'[p] # None
           /\ entity'[p].session = entity[p].session
           /\ entity'[p].incarnation = entity[p].incarnation
           /\ dirty' = dirty \cup {<<p, entity[p].incarnation>>}
           /\ last' \in [Players -> 0..MaxValue]
           /\ \A q \in Players \ {p} : last'[q] = last[q]
           /\ entity'[p].value = last'[p]
           /\ UNCHANGED <<conn, login, row, previous, open, bound, current, kicked, lifecycle,
                          active, saves, db>>
<1>1. entity[p] # None /\ entity[p] \in Entities /\ entity[p].value < MaxValue
  BY DEF ModifyPlayer, TypeInv, TypeOK
<1>2. PICK b \in BOOLEAN : entity' = [entity EXCEPT ![p] = Modified(entity[p], b)]
  BY DEF ModifyPlayer
<1> DEFINE new == Modified(entity[p], b)
<1>3. /\ new \in Entities /\ new.session = entity[p].session
      /\ new.incarnation = entity[p].incarnation /\ new.value = entity[p].value + 1
  BY <1>1, ModifiedIs
<1> HIDE DEF new
<1>4. new # None
  BY <1>3, NoneAssumption
<1>5. entity \in [Players -> Entities \cup {None}] /\ last \in [Players -> 0..MaxValue]
  BY DEF TypeInv, TypeOK
<1>6. /\ entity' \in [Players -> Entities \cup {None}] /\ entity'[p] = new
      /\ \A q \in Players \ {p} : entity'[q] = entity[q]
  BY <1>2, <1>3, <1>5 DEF new
<1>7. entity[p].value \in 0..MaxValue
  BY <1>1 DEF Entities
<1>8. /\ last' \in [Players -> 0..MaxValue] /\ last'[p] = entity[p].value + 1
      /\ \A q \in Players \ {p} : last'[q] = last[q]
  BY <1>1, <1>5, <1>7, CapacitiesAssumption DEF ModifyPlayer
<1>9. /\ dirty' = dirty \cup {<<p, entity[p].incarnation>>}
      /\ UNCHANGED <<conn, login, row, previous, open, bound, current, kicked, lifecycle,
                     active, saves, db>>
  BY DEF ModifyPlayer, taskVars, hubVars, storeVars
<1> QED
  BY <1>1, <1>3, <1>4, <1>6, <1>8, <1>9

LEMMA TypeModify ==
    ASSUME TypeInv, NEW p \in Players, ModifyPlayer(p)
    PROVE  TypeInv'
<1> USE DEF TypeInv
<1>1. entity[p].incarnation \in Sessions
  BY ModifyEffect DEF Entities
<1>2. TypeOK'
  BY <1>1, ModifyEffect DEF TypeOK
<1>3. IsFiniteSet(dirty')
  <2> DEFINE x == <<p, entity[p].incarnation>>
  <2>1. dirty' = dirty \cup {x} /\ IsFiniteSet(dirty)
    BY ModifyEffect
  <2> HIDE DEF x
  <2>2. IsFiniteSet(dirty \cup {x})
    BY <2>1, FS_AddElement
  <2> QED
    BY <2>1, <2>2
<1>4. TaskKnowsPlayer' /\ QueueKnowsPlayer'
  BY ModifyEffect DEF TaskKnowsPlayer, QueueKnowsPlayer
<1>5. ActiveOwnsEntity'
  BY ModifyEffect DEF ActiveOwnsEntity
<1> QED
  BY <1>2, <1>3, <1>4, <1>5

LEMMA TypeFlush ==
    ASSUME TypeInv, FlushDirtyPlayers
    PROVE  TypeInv'
<1> USE DEF TypeInv
<1>1. UNCHANGED <<conn, login, row, previous, open, bound, current, kicked, lifecycle, active,
                  last, db>>
  BY DEF FlushDirtyPlayers, taskVars, hubVars
<1>2. ASSUME NEW p \in Players
      PROVE  /\ entity'[p] \in Entities \cup {None}
             /\ entity'[p] = None <=> entity[p] = None
             /\ entity[p] # None => /\ entity'[p].session = entity[p].session
                                    /\ entity'[p].incarnation = entity[p].incarnation
  <2>1. CASE entity'[p] = entity[p]
    BY <2>1 DEF TypeOK
  <2>2. CASE entity[p] # None /\ entity'[p] = [entity[p] EXCEPT !.dirty = FALSE]
    <3>1. entity[p] \in Entities
      BY <2>2 DEF TypeOK
    <3> DEFINE c == [entity[p] EXCEPT !.dirty = FALSE]
    <3>2. c \in Entities /\ c.session = entity[p].session /\ c.incarnation = entity[p].incarnation
      BY <3>1, CleanIs
    <3>3. entity'[p] = c
      BY <2>2
    <3> HIDE DEF c
    <3> QED
      BY <2>2, <3>2, <3>3, NoneAssumption
  <2> QED
    BY <2>1, <2>2, FlushEffect
<1>3. entity' \in [Players -> Entities \cup {None}]
  <2>1. entity' = [p \in Players |-> entity'[p]]
    BY DEF FlushDirtyPlayers
  <2> QED
    BY <2>1, <1>2
<1>4. TypeOK'
  BY <1>1, <1>3, FlushEffect DEF TypeOK
<1>5. IsFiniteSet(dirty')
  BY FlushEffect, FS_Subset
<1>6. TaskKnowsPlayer' /\ QueueKnowsPlayer'
  BY <1>1 DEF TaskKnowsPlayer, QueueKnowsPlayer
<1>7. ActiveOwnsEntity'
  BY <1>1, <1>2 DEF ActiveOwnsEntity
<1> QED
  BY <1>4, <1>5, <1>6, <1>7

LEMMA WriteEffect ==
    ASSUME TypeInv, WriteSave
    PROVE  /\ saves # <<>> /\ saves[1] \in [player : Players, row : Rows]
           /\ saves' \in Seq([player : Players, row : Rows])
           /\ DOMAIN saves' = 1..(Len(saves) - 1)
           /\ \A i \in DOMAIN saves' : saves'[i] = saves[i + 1]
           /\ db' = [db EXCEPT ![saves[1].player] = saves[1].row]
           /\ UNCHANGED <<conn, login, row, previous, open, bound, current, kicked, lifecycle,
                          active, entity, dirty, last>>
<1> DEFINE W == [player : Players, row : Rows]
<1>1. saves \in Seq(W) /\ saves # <<>> /\ saves' = Tail(saves)
  BY DEF TypeInv, TypeOK, WriteSave
<1>2. /\ db' = [db EXCEPT ![Head(saves).player] = Head(saves).row]
      /\ UNCHANGED <<conn, login, row, previous, open, bound, current, kicked, lifecycle,
                     active, entity, dirty, last>>
  BY DEF WriteSave, taskVars, hubVars, gameVars
<1> HIDE DEF W
<1>3. /\ Head(saves) = saves[1] /\ saves[1] \in W /\ saves' \in Seq(W)
      /\ DOMAIN saves' = 1..(Len(saves) - 1) /\ \A i \in DOMAIN saves' : saves'[i] = saves[i + 1]
  BY <1>1
<1> QED
  BY <1>1, <1>2, <1>3 DEF W

LEMMA TypeWrite ==
    ASSUME TypeInv, WriteSave
    PROVE  TypeInv'
<1> USE DEF TypeInv
<1>1. db' \in [Players -> Rows]
  BY WriteEffect DEF TypeOK
<1>2. TypeOK'
  BY <1>1, WriteEffect DEF TypeOK
<1>3. IsFiniteSet(dirty') /\ TaskKnowsPlayer' /\ QueueKnowsPlayer' /\ ActiveOwnsEntity'
  BY WriteEffect DEF TaskKnowsPlayer, QueueKnowsPlayer, ActiveOwnsEntity
<1> QED
  BY <1>2, <1>3

\* Next, with the steps of a connection task under one name.
LEMMA NextIs ==
    ASSUME Next
    PROVE  \/ \E s \in Sessions : Task(s)
           \/ ApplyLifecycle
           \/ \E p \in Players : ModifyPlayer(p)
           \/ FlushDirtyPlayers
           \/ WriteSave
BY DEF Next, TaskStep, Task

LEMMA TypeStep == TypeInv /\ [Next]_vars => TypeInv'
<1> SUFFICES ASSUME TypeInv, [Next]_vars PROVE TypeInv'
  OBVIOUS
<1>1. CASE UNCHANGED vars
  BY <1>1 DEF vars, taskVars, hubVars, gameVars, storeVars, TypeInv, TypeOK, TaskKnowsPlayer,
              QueueKnowsPlayer, ActiveOwnsEntity
<1> QED
  BY <1>1, NextIs, TypeTask, TypeApply, TypeModify, TypeFlush, TypeWrite

LEMMA TypeInvariant == Spec => []TypeInv
BY TypeInit, TypeStep, PTL DEF Spec

\* The types, and that active_players and the entities agree.
THEOREM TypeCorrect == Spec => []TypeOK
BY TypeInvariant, PTL DEF TypeInv

\* PlayerRegistry.active_players and the PlayerConnection component name the
\* same session, whatever the order in which Connect and Disconnect arrive.
THEOREM ActiveOwnership == Spec => []ActiveOwnsEntity
BY TypeInvariant, PTL DEF TypeInv
------------------------------------------------------------------------------
\* Saves: what a step does to the rows that will be on disk.
Saved(p) ==
    /\ \A i \in DOMAIN saves : IsLatestSave(i, p) => saves[i].row.value = last[p]
    /\ (\A i \in DOMAIN saves : saves[i].player # p) => db[p].value = last[p]

LEMMA GameInit == Init => GameInv
<1> SUFFICES ASSUME Init PROVE GameInv
  OBVIOUS
<1>1. DirtyIsRegistered /\ EntityIsLast
  BY DEF Init, DirtyIsRegistered, EntityIsLast
<1>2. OfflineIsSaved
  BY DEF Init, OfflineIsSaved
<1> QED
  BY <1>1, <1>2 DEF GameInv

LEMMA GameApply ==
    ASSUME TypeInv, GameInv, ApplyLifecycle
    PROVE  GameInv'
<1>1. UNCHANGED db
  BY ApplyEffect
<1>2. PICK s \in Sessions, p \in Players : ApplyConnect(s, p) \/ ApplyDisconnect(s, p)
  BY ApplyEffect
<1>3. CASE UNCHANGED <<gameVars, saves>>
  BY <1>1, <1>3 DEF gameVars, GameInv, DirtyIsRegistered, EntityIsLast, OfflineIsSaved, IsLatestSave
<1>4. CASE ApplyConnect(s, p) /\ s \in open
  <2>1. /\ \A q \in Players \ {p} : entity'[q] = entity[q] /\ last'[q] = last[q]
        /\ entity'[p] # None /\ entity'[p].dirty = FALSE
        /\ UNCHANGED <<dirty, saves>>
    BY ZenonT(30), <1>4, ConnectEffect
  <2>2. entity'[p].value = last'[p]
    BY ZenonT(30), <1>4, ConnectEffect DEF GameInv, EntityIsLast
  <2>3. DirtyIsRegistered' /\ EntityIsLast'
    BY <2>1, <2>2 DEF GameInv, DirtyIsRegistered, EntityIsLast
  <2>4. OfflineIsSaved'
    BY <1>1, <2>1 DEF GameInv, OfflineIsSaved, IsLatestSave
  <2> QED
    BY <2>3, <2>4 DEF GameInv
<1>5. CASE ApplyDisconnect(s, p) /\ active[p] = s
  <2>1. /\ entity[p] \in Entities /\ entity[p] # None
        /\ \A q \in Players \ {p} : entity'[q] = entity[q]
        /\ entity'[p] # None => entity'[p] = [entity[p] EXCEPT !.session = None]
        /\ UNCHANGED <<dirty, last>>
    BY <1>5, DisconnectEffect
  <2>2. PICK w \in [player : Players, row : Rows] :
          saves' = Append(saves, w) /\ w.player = p /\ w.row.value = entity[p].value
    BY <1>5, DisconnectEffect
  <2>3. entity'[p] # None => /\ entity'[p].dirty = entity[p].dirty
                             /\ entity'[p].incarnation = entity[p].incarnation
                             /\ entity'[p].value = entity[p].value
    BY <2>1, OfflineIs
  <2>4. DirtyIsRegistered' /\ EntityIsLast'
    BY <2>1, <2>3 DEF GameInv, DirtyIsRegistered, EntityIsLast
  <2>5. w.row.value = last[p]
    BY <2>1, <2>2 DEF GameInv, EntityIsLast
  <2>6. saves \in Seq([player : Players, row : Rows])
    BY DEF TypeInv, TypeOK
  <2>7. /\ DOMAIN saves' = 1..(Len(saves) + 1) /\ DOMAIN saves = 1..Len(saves)
        /\ Len(saves) \in Nat
        /\ \A i \in DOMAIN saves : saves'[i] = saves[i]
        /\ saves'[Len(saves) + 1] = w
    BY <2>2, <2>6
  <2>8. OfflineIsSaved'
    <3>1. SUFFICES ASSUME NEW q \in Players, entity'[q] = None
                   PROVE  Saved(q)'
      BY DEF OfflineIsSaved, Saved
    <3>2. CASE q = p
      BY <3>2, <2>1, <2>2, <2>5, <2>7 DEF Saved, IsLatestSave
    <3>3. CASE q # p
      <4>1. Saved(q)
        BY <2>1, <3>1, <3>3 DEF GameInv, OfflineIsSaved, Saved
      <4>2. ASSUME NEW i \in DOMAIN saves', IsLatestSave(i, q)'
            PROVE  i \in DOMAIN saves /\ IsLatestSave(i, q)
        BY <4>2, <2>2, <2>7, <3>3 DEF IsLatestSave
      <4>3. (\A i \in DOMAIN saves' : saves'[i].player # q) =>
               (\A i \in DOMAIN saves : saves[i].player # q)
        BY <2>7
      <4> QED
        BY <4>1, <4>2, <4>3, <1>1, <2>1, <2>7 DEF Saved
    <3> QED
      BY <3>2, <3>3
  <2> QED
    BY <2>4, <2>8 DEF GameInv
<1> QED
  BY <1>2, <1>3, <1>4, <1>5 DEF ApplyConnect, ApplyDisconnect, IsActiveSession

LEMMA GameModify ==
    ASSUME TypeInv, GameInv, NEW p \in Players, ModifyPlayer(p)
    PROVE  GameInv'
<1>1. DirtyIsRegistered' /\ EntityIsLast'
  BY ModifyEffect DEF GameInv, DirtyIsRegistered, EntityIsLast
<1>2. OfflineIsSaved'
  BY ModifyEffect DEF GameInv, OfflineIsSaved, IsLatestSave
<1> QED
  BY <1>1, <1>2 DEF GameInv

LEMMA GameFlush ==
    ASSUME TypeInv, GameInv, FlushDirtyPlayers
    PROVE  GameInv'
<1>1. UNCHANGED <<last, db>>
  BY DEF FlushDirtyPlayers
<1>2. ASSUME NEW p \in Players, entity'[p] # None
      PROVE  /\ entity[p] # None
             /\ entity'[p].value = entity[p].value
             /\ entity'[p].dirty => entity'[p] = entity[p]
  <2>1. CASE entity'[p] = entity[p]
    BY <2>1, <1>2
  <2>2. CASE entity[p] # None /\ entity'[p] = [entity[p] EXCEPT !.dirty = FALSE]
    <3>1. entity[p] \in Entities
      BY <2>2 DEF TypeInv, TypeOK
    <3> QED
      BY <2>2, <3>1, CleanIs
  <2> QED
    BY <2>1, <2>2, FlushEffect
<1>3. EntityIsLast'
  BY <1>1, <1>2 DEF GameInv, EntityIsLast
<1>4. DirtyIsRegistered'
  <2>1. SUFFICES ASSUME NEW p \in Players, entity'[p] # None, entity'[p].dirty
                 PROVE  <<p, entity'[p].incarnation>> \in dirty'
    BY DEF DirtyIsRegistered
  <2>2. entity[p] # None /\ entity'[p] = entity[p]
    BY <1>2, <2>1
  <2>3. entity[p].dirty /\ <<p, entity[p].incarnation>> \in dirty
    BY <2>1, <2>2 DEF GameInv, DirtyIsRegistered
  <2>4. entity[p] \in Entities
    BY <2>2 DEF TypeInv, TypeOK
  <2>5. [entity[p] EXCEPT !.dirty = FALSE].dirty = FALSE
    BY <2>4, CleanIs
  <2>6. entity'[p] # [entity[p] EXCEPT !.dirty = FALSE]
    BY <2>1, <2>5
  <2>7. <<p, entity[p].incarnation>> \in dirty'
    BY <2>2, <2>3, <2>6, FlushEffect
  <2> QED
    BY <2>2, <2>7
<1>5. OfflineIsSaved'
  <2>1. SUFFICES ASSUME NEW p \in Players, entity'[p] = None
                 PROVE  Saved(p)'
    BY DEF OfflineIsSaved, Saved
  <2>2. entity[p] = None
    <3>1. SUFFICES ASSUME entity[p] # None PROVE FALSE
      OBVIOUS
    <3>2. entity[p] \in Entities /\ [entity[p] EXCEPT !.dirty = FALSE] \in Entities
      BY <3>1, CleanIs DEF TypeInv, TypeOK
    <3> QED
      BY <2>1, <3>1, <3>2, FlushEffect, NoneAssumption
  <2>3. Saved(p)
    BY <2>2 DEF GameInv, OfflineIsSaved, Saved
  <2>4. /\ DOMAIN saves = 1..Len(saves) /\ DOMAIN saves' = 1..Len(saves')
        /\ Len(saves) \in Nat /\ Len(saves') \in Nat
    BY FlushEffect DEF TypeInv, TypeOK
  <2>5. /\ Len(saves') >= Len(saves) /\ \A i \in DOMAIN saves : saves'[i] = saves[i]
        /\ \A i \in DOMAIN saves' : i > Len(saves) => saves'[i].player # p
    BY <2>2, <2>4, FlushEffect
  <2>6. ASSUME NEW i \in DOMAIN saves', IsLatestSave(i, p)'
        PROVE  i \in DOMAIN saves /\ IsLatestSave(i, p)
    BY <2>4, <2>5, <2>6 DEF IsLatestSave
  <2>7. (\A i \in DOMAIN saves' : saves'[i].player # p) =>
            (\A i \in DOMAIN saves : saves[i].player # p)
    BY <2>4, <2>5
  <2> QED
    BY <1>1, <2>3, <2>5, <2>6, <2>7 DEF Saved
<1> QED
  BY <1>3, <1>4, <1>5 DEF GameInv

LEMMA GameWrite ==
    ASSUME TypeInv, GameInv, WriteSave
    PROVE  GameInv'
<1>1. DirtyIsRegistered' /\ EntityIsLast'
  BY WriteEffect DEF GameInv, DirtyIsRegistered, EntityIsLast
<1>2. OfflineIsSaved'
  <2>1. SUFFICES ASSUME NEW p \in Players, entity'[p] = None
                 PROVE  Saved(p)'
    BY DEF OfflineIsSaved, Saved
  <2>2. Saved(p)
    BY <2>1, WriteEffect DEF GameInv, OfflineIsSaved, Saved
  <2>3. /\ DOMAIN saves = 1..Len(saves) /\ Len(saves) \in Nat \ {0}
    BY WriteEffect DEF TypeInv, TypeOK
  <2>4. /\ DOMAIN saves' = 1..(Len(saves) - 1)
        /\ \A i \in DOMAIN saves' : saves'[i] = saves[i + 1]
        /\ last' = last
    BY WriteEffect
  <2>5. ASSUME NEW i \in DOMAIN saves', IsLatestSave(i, p)'
        PROVE  i + 1 \in DOMAIN saves /\ IsLatestSave(i + 1, p)
    <3>1. i + 1 \in DOMAIN saves /\ saves[i + 1].player = p /\ i \in Nat
      BY <2>3, <2>4, <2>5 DEF IsLatestSave
    <3>2. ASSUME NEW j \in DOMAIN saves, saves[j].player = p
          PROVE  j <= i + 1
      <4>1. CASE j = 1
        BY <4>1, <3>1
      <4>2. CASE j # 1
        <5>1. j - 1 \in DOMAIN saves' /\ saves'[j - 1] = saves[j]
          BY <4>2, <2>3, <2>4
        <5>2. j - 1 <= i
          BY <5>1, <3>2, <2>5 DEF IsLatestSave
        <5> QED
          BY <5>2, <3>1, <2>3
      <4> QED
        BY <4>1, <4>2
    <3> QED
      BY <3>1, <3>2 DEF IsLatestSave
  <2>6. \A i \in DOMAIN saves' : IsLatestSave(i, p)' => saves'[i].row.value = last'[p]
    BY <2>2, <2>4, <2>5 DEF Saved
  <2>7. ASSUME \A i \in DOMAIN saves' : saves'[i].player # p
        PROVE  db'[p].value = last'[p]
    <3>1. \A j \in DOMAIN saves : j # 1 => saves[j].player # p
      <4>1. SUFFICES ASSUME NEW j \in DOMAIN saves, j # 1 PROVE saves[j].player # p
        OBVIOUS
      <4>2. j - 1 \in DOMAIN saves' /\ saves'[j - 1] = saves[j]
        BY <4>1, <2>3, <2>4
      <4> QED
        BY <4>2, <2>7
    <3>2. CASE saves[1].player = p
      <4>1. 1 \in DOMAIN saves /\ IsLatestSave(1, p)
        BY <3>1, <3>2, <2>3 DEF IsLatestSave
      <4>2. saves[1].row.value = last[p]
        BY <4>1, <2>2 DEF Saved
      <4>3. db'[p] = saves[1].row
        BY <3>2, WriteEffect DEF TypeInv, TypeOK
      <4> QED
        BY <4>2, <4>3, <2>4
    <3>3. CASE saves[1].player # p
      <4>1. db[p].value = last[p]
        BY <3>1, <3>3, <2>2 DEF Saved
      <4>2. db'[p] = db[p]
        BY <3>3, WriteEffect DEF TypeInv, TypeOK
      <4> QED
        BY <4>1, <4>2, <2>4
    <3> QED
      BY <3>2, <3>3
  <2> QED
    BY <2>6, <2>7 DEF Saved
<1> QED
  BY <1>1, <1>2 DEF GameInv

LEMMA GameStep == TypeInv /\ GameInv /\ [Next]_vars => GameInv'
<1> SUFFICES ASSUME TypeInv, GameInv, [Next]_vars PROVE GameInv'
  OBVIOUS
<1>1. CASE UNCHANGED <<gameVars, storeVars>>
  BY <1>1 DEF gameVars, storeVars, GameInv, DirtyIsRegistered, EntityIsLast, OfflineIsSaved,
              IsLatestSave
<1>2. ASSUME NEW s \in Sessions, Task(s)
      PROVE  UNCHANGED <<gameVars, storeVars>>
  BY <1>2 DEF Task, OpenSession, Authenticate, BindPlayer, KickPrevious, EnqueueConnect, LeaveLoop,
         FailWithError, EnqueueDisconnect, CloseSession
<1> QED
  BY <1>1, <1>2, NextIs, GameApply, GameModify, GameFlush, GameWrite DEF vars

LEMMA GameInvariant == Spec => []GameInv
<1>1. TypeInv /\ TypeInv' /\ GameInv /\ [Next]_vars => GameInv'
  BY GameStep
<1> QED
  BY <1>1, GameInit, TypeInvariant, PTL DEF Spec

\* A dirty entity is registered under its current incarnation, through
\* saturated flushes, reconnects and offline entities: the next flush with a
\* free slot can find it.
THEOREM DirtyRegistration == Spec => []DirtyIsRegistered
BY GameInvariant, PTL DEF GameInv

\* disconnect_in_tick, the dirty flush and the FIFO save queue together keep
\* the final state of a player who has left: it is on disk or the latest of
\* its saves in the queue.
THEOREM OfflineDurability == Spec => []OfflineIsSaved
BY GameInvariant, PTL DEF GameInv
------------------------------------------------------------------------------
\* The hub: four steps of a task touch its maps or the kick in progress.
LEMMA HubInit == Init => HubInv
BY DEF Init, HubInv, TaskIsOpen, HubIsConsistent

LEMMA HubBind ==
    ASSUME TypeInv, HubInv, NEW s \in Sessions, BindPlayer(s)
    PROVE  HubInv'
<1> DEFINE p == login[s]
<1>1. p \in Players /\ conn[s] = "read" /\ s \in open /\ bound[s] = None
  BY DEF BindPlayer, TypeInv, TaskKnowsPlayer, HubInv, TaskIsOpen
<1> HIDE DEF p
<1>2. /\ conn'[s] = "kick" /\ \A t \in Sessions \ {s} : conn'[t] = conn[t]
      /\ bound'[s] = p /\ \A t \in Sessions \ {s} : bound'[t] = bound[t]
      /\ previous'[s] = current[p] /\ \A t \in Sessions \ {s} : previous'[t] = previous[t]
      /\ current'[p] = s /\ \A q \in Players \ {p} : current'[q] = current[q]
      /\ UNCHANGED <<open, kicked>>
  BY <1>1 DEF BindPlayer, TypeInv, TypeOK, p
<1>3. TaskIsOpen'
  BY <1>1, <1>2 DEF HubInv, TaskIsOpen
<1>4. ASSUME NEW q \in Players, current'[q] # None
      PROVE  current'[q] \in open' /\ bound'[current'[q]] = q
  <2>1. CASE q = p
    BY <1>1, <1>2, <2>1
  <2>2. CASE q # p
    <3>1. current[q] \in open /\ bound[current[q]] = q
      BY <1>2, <1>4, <2>2 DEF HubInv, HubIsConsistent
    <3>2. current[q] \in Sessions /\ current[q] # s
      BY <1>1, <3>1, SessionsAssumption DEF TypeInv, TypeOK
    <3> QED
      BY <1>2, <2>2, <3>1, <3>2
  <2> QED
    BY <2>1, <2>2
<1>5. ASSUME NEW u \in open', bound'[u] # None, current'[bound'[u]] # u
      PROVE  u \in kicked' \/ \E t \in Sessions : conn'[t] = "kick" /\ previous'[t] = u
  <2>1. u # s /\ u \in Sessions /\ u \in open /\ bound[u] # None /\ bound'[u] = bound[u]
    BY <1>1, <1>2, <1>5 DEF TypeInv, TypeOK
  <2>2. CASE current[bound[u]] = u
    <3>1. bound[u] = p
      BY <1>2, <1>5, <2>1, <2>2 DEF TypeInv, TypeOK
    <3> QED
      BY <1>2, <2>2, <3>1
  <2>3. CASE current[bound[u]] # u
    <3>1. u \in kicked \/ \E t \in Sessions : conn[t] = "kick" /\ previous[t] = u
      BY <2>1, <2>3 DEF HubInv, HubIsConsistent
    <3> QED
      BY <3>1, <1>1, <1>2
  <2> QED
    BY <2>2, <2>3
<1> QED
  BY <1>3, <1>4, <1>5 DEF HubInv, HubIsConsistent

LEMMA HubKick ==
    ASSUME TypeInv, HubInv, NEW s \in Sessions, KickPrevious(s)
    PROVE  HubInv'
<1>1. /\ conn[s] = "kick"
      /\ conn'[s] = "bound" /\ \A t \in Sessions \ {s} : conn'[t] = conn[t]
      /\ \A t \in Sessions \ {s} : previous'[t] = previous[t]
      /\ kicked' = kicked \cup ({previous[s]} \cap open)
      /\ UNCHANGED <<open, bound, current>>
  BY DEF KickPrevious, TypeInv, TypeOK
<1>2. TaskIsOpen'
  BY <1>1 DEF HubInv, TaskIsOpen
<1>3. HubIsConsistent'
  BY <1>1 DEF HubInv, HubIsConsistent
<1> QED
  BY <1>2, <1>3 DEF HubInv

LEMMA HubClose ==
    ASSUME TypeInv, HubInv, NEW s \in Sessions, CloseSession(s)
    PROVE  HubInv'
<1>1. /\ conn[s] = "closing"
      /\ conn'[s] = "gone" /\ \A t \in Sessions \ {s} : conn'[t] = conn[t]
      /\ open' = open \ {s}
      /\ \A p \in Players : current'[p] = IF current[p] = s THEN None ELSE current[p]
      /\ UNCHANGED <<bound, previous, kicked>>
  BY DEF CloseSession, TypeInv, TypeOK
<1>2. TaskIsOpen'
  BY <1>1 DEF HubInv, TaskIsOpen
<1>3. ASSUME NEW p \in Players, current'[p] # None
      PROVE  current'[p] \in open' /\ bound'[current'[p]] = p
  BY <1>1, <1>3 DEF HubInv, HubIsConsistent
<1>4. ASSUME NEW u \in open', bound'[u] # None, current'[bound'[u]] # u
      PROVE  u \in kicked' \/ \E t \in Sessions : conn'[t] = "kick" /\ previous'[t] = u
  <2>1. u \in open /\ u # s /\ bound[u] \in Players /\ current[bound[u]] # u
    BY <1>1, <1>4 DEF TypeInv, TypeOK
  <2>2. u \in kicked \/ \E t \in Sessions : conn[t] = "kick" /\ previous[t] = u
    BY <1>1, <1>4, <2>1 DEF HubInv, HubIsConsistent
  <2> QED
    BY <1>1, <2>2
<1> QED
  BY <1>2, <1>3, <1>4 DEF HubInv, HubIsConsistent

LEMMA HubOpen ==
    ASSUME TypeInv, HubInv, NEW s \in Sessions, OpenSession(s)
    PROVE  HubInv'
<1>1. /\ conn[s] = "none" /\ bound[s] = None
      /\ conn'[s] = "preauth" /\ \A t \in Sessions \ {s} : conn'[t] = conn[t]
      /\ open' = open \cup {s}
      /\ UNCHANGED <<bound, current, previous, kicked>>
  BY DEF OpenSession, TypeInv, TypeOK, HubInv, TaskIsOpen
<1>2. TaskIsOpen'
  BY <1>1 DEF HubInv, TaskIsOpen
<1>3. HubIsConsistent'
  BY <1>1 DEF HubInv, HubIsConsistent
<1> QED
  BY <1>2, <1>3 DEF HubInv

LEMMA HubOther ==
    ASSUME TypeInv, HubInv, NEW s \in Sessions,
           \/ EnqueueConnect(s) \/ EnqueueDisconnect(s) \/ LeaveLoop(s) \/ FailWithError(s)
           \/ \E p \in Players : Authenticate(s, p)
    PROVE  HubInv'
<1>1. UNCHANGED <<open, bound, current, kicked, previous>>
  BY DEF EnqueueConnect, EnqueueDisconnect, LeaveLoop, FailWithError, Authenticate, hubVars
<1>2. /\ \A t \in Sessions \ {s} : conn'[t] = conn[t]
      /\ conn[s] \notin {"none", "gone", "kick"} /\ conn'[s] \notin {"none", "gone"}
      /\ conn'[s] \in {"none", "preauth", "read"} => conn[s] = "preauth"
  BY DEF EnqueueConnect, EnqueueDisconnect, LeaveLoop, FailWithError, Authenticate, TypeInv, TypeOK
<1>3. TaskIsOpen'
  BY <1>1, <1>2 DEF HubInv, TaskIsOpen
<1>4. HubIsConsistent'
  BY <1>1, <1>2 DEF HubInv, HubIsConsistent
<1> QED
  BY <1>3, <1>4 DEF HubInv

LEMMA HubStep == TypeInv /\ HubInv /\ [Next]_vars => HubInv'
<1> SUFFICES ASSUME TypeInv, HubInv, [Next]_vars PROVE HubInv'
  OBVIOUS
<1>1. CASE UNCHANGED <<taskVars, hubVars>>
  BY <1>1 DEF taskVars, hubVars, HubInv, TaskIsOpen, HubIsConsistent
<1>2. ASSUME NEW s \in Sessions, Task(s)
      PROVE  HubInv'
  BY <1>2, HubBind, HubKick, HubClose, HubOpen, HubOther DEF Task
<1>3. ASSUME \/ ApplyLifecycle \/ FlushDirtyPlayers \/ WriteSave
             \/ \E p \in Players : ModifyPlayer(p)
      PROVE  UNCHANGED <<taskVars, hubVars>>
  BY <1>3 DEF ApplyLifecycle, FlushDirtyPlayers, WriteSave, ModifyPlayer
<1> QED
  BY <1>1, <1>2, <1>3, NextIs DEF vars

\* SessionHub: a player's entry is an open session bound to that player, and
\* a session that was replaced is kicked, or the task that replaced it is
\* about to kick it.
THEOREM HubConsistency == Spec => []HubIsConsistent
<1>1. TypeInv /\ TypeInv' /\ HubInv /\ [Next]_vars => HubInv'
  BY HubStep
<1>2. HubInv => HubIsConsistent
  BY DEF HubInv
<1> QED
  BY <1>1, <1>2, HubInit, TypeInvariant, PTL DEF Spec
==============================================================================
