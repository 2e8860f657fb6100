--------------------------- MODULE SessionLifecycle ---------------------------
(***************************************************************************)
(* The life of a player session: the connection task of net/session, the   *)
(* SessionHub that maps sessions to players, the Connect and Disconnect    *)
(* commands that the simulation owner applies, the registry of dirty       *)
(* players and the database row that logins read and saves overwrite.      *)
(*                                                                         *)
(* A player's progress is a number that only grows while the entity lives, *)
(* so that a lost or overwritten change is visible.                        *)
(***************************************************************************)
EXTENDS Integers, Sequences, FiniteSets

CONSTANTS
    Sessions,           \* SessionIds; SessionHub::open never reuses one
    Players,
    None,
    LifecycleCapacity,  \* slots of the lifecycle channel
    SaveCapacity,       \* QUEUE_CAPACITY of the save queue
    MaxValue            \* bound on a player's progress

ASSUME SessionsAssumption == None \notin Sessions /\ None \notin Players
ASSUME CapacitiesAssumption ==
    /\ LifecycleCapacity \in Nat \ {0}
    /\ SaveCapacity \in Nat \ {0}
    /\ MaxValue \in Nat

VARIABLES
    conn,       \* where each session's connection task is
    login,      \* the player a session authenticated as, or None
    row,        \* the player row its login read from the database
    open,       \* SessionHub.sessions
    bound,      \* SessionEntry.player_id
    current,    \* SessionHub.players
    previous,   \* the session a bind has replaced and is about to kick
    kicked,     \* sessions whose kick sender was taken
    lifecycle,  \* the lifecycle channel
    active,     \* PlayerRegistry.active_players: the session of each player
    entity,     \* PlayerRegistry.player_entities and the entity's components
    dirty,      \* the DirtyPlayers registry: <<player, incarnation>>
    saves,      \* Player saves published and not yet written
    db,         \* the players table
    last        \* history: the progress of each player's latest entity

taskVars == <<conn, login, row, previous>>
hubVars == <<open, bound, current, kicked>>
gameVars == <<active, entity, dirty, last>>
storeVars == <<saves, db>>
vars == <<taskVars, hubVars, lifecycle, gameVars, storeVars>>

Rows == [value : 0..MaxValue, running : BOOLEAN]
Entities == [value : 0..MaxValue, running : BOOLEAN, session : Sessions \cup {None},
             incarnation : Sessions, dirty : BOOLEAN]

ASSUME NoneAssumption == None \notin Entities

\* extract_player_row.
RowOf(e) == [value |-> e.value, running |-> e.running]
------------------------------------------------------------------------------
(***************************************************************************)
(* The connection task: handle, handle_auth, init_player, on_disconnect.   *)
(***************************************************************************)
OpenSession(s) ==
    /\ conn[s] = "none"
    /\ conn' = [conn EXCEPT ![s] = "preauth"]
    /\ open' = open \cup {s}
    /\ UNCHANGED <<login, row, previous, bound, current, kicked, lifecycle, gameVars, storeVars>>

\* get_player_by_id: the row is read now and used when Connect is applied.
Authenticate(s, p) ==
    /\ conn[s] = "preauth"
    /\ login' = [login EXCEPT ![s] = p]
    /\ row' = [row EXCEPT ![s] = db[p]]
    /\ conn' = [conn EXCEPT ![s] = "read"]
    /\ UNCHANGED <<previous, hubVars, lifecycle, gameVars, storeVars>>

\* bind_player up to the insert that replaces the previous session.
BindPlayer(s) ==
    /\ conn[s] = "read"
    /\ bound' = [bound EXCEPT ![s] = login[s]]
    /\ previous' = [previous EXCEPT ![s] = current[login[s]]]
    /\ current' = [current EXCEPT ![login[s]] = s]
    /\ conn' = [conn EXCEPT ![s] = "kick"]
    /\ UNCHANGED <<login, row, open, kicked, lifecycle, gameVars, storeVars>>

\* kick_session(previous): nothing happens when its entry is gone.
KickPrevious(s) ==
    /\ conn[s] = "kick"
    /\ kicked' = kicked \cup ({previous[s]} \cap open)
    /\ previous' = [previous EXCEPT ![s] = None]
    /\ conn' = [conn EXCEPT ![s] = "bound"]
    /\ UNCHANGED <<login, row, open, bound, current, lifecycle, gameVars, storeVars>>

Message(kind, s) == [kind |-> kind, session |-> s]

EnqueueConnect(s) ==
    /\ conn[s] = "bound"
    /\ Len(lifecycle) < LifecycleCapacity
    /\ lifecycle' = Append(lifecycle, Message("connect", s))
    /\ conn' = [conn EXCEPT ![s] = "playing"]
    /\ UNCHANGED <<login, row, previous, hubVars, gameVars, storeVars>>

\* The select loop ends: kicked, closed by the peer, timed out, overflowed.
LeaveLoop(s) ==
    /\ conn[s] \in {"preauth", "playing"}
    /\ conn' = [conn EXCEPT ![s] = IF @ = "playing" THEN "leaving" ELSE "closing"]
    /\ UNCHANGED <<login, row, previous, hubVars, lifecycle, gameVars, storeVars>>

\* A read or write error returns from handle with `?`: nothing after the loop runs.
FailWithError(s) ==
    /\ conn[s] \in {"preauth", "playing"}
    /\ conn' = [conn EXCEPT ![s] = "failed"]
    /\ UNCHANGED <<login, row, previous, hubVars, lifecycle, gameVars, storeVars>>

EnqueueDisconnect(s) ==
    /\ conn[s] = "leaving"
    /\ Len(lifecycle) < LifecycleCapacity
    /\ lifecycle' = Append(lifecycle, Message("disconnect", s))
    /\ conn' = [conn EXCEPT ![s] = "closing"]
    /\ UNCHANGED <<login, row, previous, hubVars, gameVars, storeVars>>

\* Mutant: the player's mapping is removed whoever owns it now.
CloseUnguarded(s) ==
    /\ conn[s] = "closing"
    /\ open' = open \ {s}
    /\ current' = [p \in Players |-> IF p = bound[s] THEN None ELSE current[p]]
    /\ conn' = [conn EXCEPT ![s] = "gone"]
    /\ UNCHANGED <<login, row, previous, bound, kicked, lifecycle, gameVars, storeVars>>

\* SessionHub::close removes the player's mapping only if it is still ours.
CloseSession(s) ==
    /\ conn[s] = "closing"
    /\ open' = open \ {s}
    /\ current' = [p \in Players |-> IF current[p] = s THEN None ELSE current[p]]
    /\ conn' = [conn EXCEPT ![s] = "gone"]
    /\ UNCHANGED <<login, row, previous, bound, kicked, lifecycle, gameVars, storeVars>>
------------------------------------------------------------------------------
(***************************************************************************)
(* The simulation owner.                                                   *)
(***************************************************************************)
\* Mutant: the entity keeps the incarnation of its previous session.
TakenOverUnmarked(e, s) == [e EXCEPT !.session = s, !.dirty = FALSE]
\* connect_entity_in_tick_inner takes a living entity over as it is, with its
\* dirty flag cleared.
TakenOver(e, s) == [e EXCEPT !.session = s, !.incarnation = s, !.dirty = FALSE]

\* Mutant: a fresh entity has no incarnation.
SpawnedUnmarked(r, s) ==
    [value |-> r.value, running |-> r.running, session |-> s, incarnation |-> None, dirty |-> FALSE]
\* Without an entity, one is spawned from the row the login read.
Spawned(r, s) ==
    [value |-> r.value, running |-> r.running, session |-> s, incarnation |-> s, dirty |-> FALSE]

\* connect_entity_in_tick: nothing for a session that has been closed.
ApplyConnect(s, p) ==
    IF s \in open
    THEN /\ active' = [active EXCEPT ![p] = s]
         /\ entity' = [entity EXCEPT ![p] = IF @ # None THEN TakenOver(@, s) ELSE Spawned(row[s], s)]
         /\ last' = [last EXCEPT ![p] = IF entity[p] # None THEN @ ELSE row[s].value]
         /\ UNCHANGED <<dirty, saves>>
    ELSE UNCHANGED <<gameVars, saves>>

\* Mutant: the last save of a departing player is forgotten.
SaveNothing(p) == UNCHANGED saves
SaveOnLeave(p) == saves' = Append(saves, [player |-> p, row |-> RowOf(entity[p])])

\* Mutant: the hub's mapping is consulted instead of active_players.
IsHubSession(s, p) == current[p] = s
\* active_player_entity_for_session.
IsActiveSession(s, p) == active[p] = s

\* disconnect_in_tick: the running programmator's entity is kept offline.
ApplyDisconnect(s, p) ==
    IF IsActiveSession(s, p)
    THEN /\ active' = [active EXCEPT ![p] = None]
         /\ SaveOnLeave(p)
         /\ entity' = [entity EXCEPT ![p] = IF @.running THEN [@ EXCEPT !.session = None] ELSE None]
         /\ UNCHANGED <<dirty, last>>
    ELSE UNCHANGED <<gameVars, saves>>

\* Disconnect reserves a save slot before it is applied.
ApplyLifecycle ==
    /\ lifecycle # <<>>
    /\ LET m == Head(lifecycle)
           p == login[m.session]
       IN  \/ m.kind = "connect" /\ ApplyConnect(m.session, p)
           \/ /\ m.kind = "disconnect"
              /\ Len(saves) < SaveCapacity
              /\ ApplyDisconnect(m.session, p)
    /\ lifecycle' = Tail(lifecycle)
    /\ UNCHANGED <<taskVars, hubVars, db>>

Modified(e, running) ==
    [value |-> e.value + 1, running |-> running, session |-> e.session,
     incarnation |-> e.incarnation, dirty |-> TRUE]

\* modify_player by any command or system: progress, or the programmator
\* starts or stops; a dirty entity is registered with its incarnation.
ModifyPlayer(p) ==
    /\ entity[p] # None
    /\ entity[p].value < MaxValue
    /\ \E running \in BOOLEAN : entity' = [entity EXCEPT ![p] = Modified(@, running)]
    /\ dirty' = dirty \cup {<<p, entity[p].incarnation>>}
    /\ last' = [last EXCEPT ![p] = entity[p].value + 1]
    /\ UNCHANGED <<taskVars, hubVars, lifecycle, active, storeVars>>

\* snapshot_dirty_player_in_ecs: only the living, dirty, same incarnation.
Snapshotable(d) ==
    /\ entity[d[1]] # None
    /\ entity[d[1]].incarnation = d[2]
    /\ entity[d[1]].dirty

\* Mutant: an entry that finds no slot is dropped instead of requeued.
RequeueNothing(admitted) == dirty' = {}
RequeueDirty(admitted) == dirty' = dirty \ admitted

\* flush_dirty_players_once: as many entries as there are slots are admitted,
\* in the order of a hash set; the others are requeued.
FlushDirtyPlayers ==
    /\ dirty # {}
    /\ \E admitted \in SUBSET dirty :
         LET free == SaveCapacity - Len(saves)
             valid == {d \in admitted : Snapshotable(d)}
         IN  /\ Cardinality(admitted) <= free
             /\ Cardinality(admitted) < free => admitted = dirty
             /\ \E order \in [1..Cardinality(valid) -> valid] :
                  /\ \A d \in valid : \E i \in DOMAIN order : order[i] = d
                  /\ saves' = saves \o [i \in DOMAIN order |->
                         [player |-> order[i][1], row |-> RowOf(entity[order[i][1]])]]
             /\ entity' = [p \in Players |->
                    IF \E d \in valid : d[1] = p THEN [entity[p] EXCEPT !.dirty = FALSE]
                    ELSE entity[p]]
             /\ RequeueDirty(admitted)
    /\ UNCHANGED <<taskVars, hubVars, lifecycle, active, last, db>>

\* The persistence worker writes the oldest save.
WriteSave ==
    /\ saves # <<>>
    /\ db' = [db EXCEPT ![Head(saves).player] = Head(saves).row]
    /\ saves' = Tail(saves)
    /\ UNCHANGED <<taskVars, hubVars, lifecycle, gameVars>>
------------------------------------------------------------------------------
Init ==
    /\ conn = [s \in Sessions |-> "none"]
    /\ login = [s \in Sessions |-> None]
    /\ row = [s \in Sessions |-> [value |-> 0, running |-> FALSE]]
    /\ open = {} /\ kicked = {}
    /\ bound = [s \in Sessions |-> None]
    /\ current = [p \in Players |-> None]
    /\ previous = [s \in Sessions |-> None]
    /\ lifecycle = <<>>
    /\ active = [p \in Players |-> None]
    /\ entity = [p \in Players |-> None]
    /\ dirty = {} /\ saves = <<>>
    /\ db = [p \in Players |-> [value |-> 0, running |-> FALSE]]
    /\ last = [p \in Players |-> 0]

\* What a connection task does by itself once it has begun.
TaskStep(s) ==
    \/ BindPlayer(s) \/ KickPrevious(s) \/ EnqueueConnect(s)
    \/ EnqueueDisconnect(s) \/ CloseSession(s)

Next ==
    \/ \E s \in Sessions :
         \/ OpenSession(s)
         \/ \E p \in Players : Authenticate(s, p)
         \/ TaskStep(s)
         \/ LeaveLoop(s)
         \/ FailWithError(s)
    \/ ApplyLifecycle
    \/ \E p \in Players : ModifyPlayer(p)
    \/ FlushDirtyPlayers
    \/ WriteSave

Spec == Init /\ [][Next]_vars

\* Tasks, the owner and the worker keep running, and a kicked task sees it.
FairSpec ==
    /\ Spec
    /\ \A s \in Sessions : WF_vars(TaskStep(s)) /\ WF_vars(s \in kicked /\ LeaveLoop(s))
    /\ WF_vars(ApplyLifecycle)
    /\ WF_vars(WriteSave)
    /\ WF_vars(FlushDirtyPlayers)
------------------------------------------------------------------------------
TaskStates == {"none", "preauth", "read", "kick", "bound", "playing", "leaving", "closing",
               "gone", "failed"}

TypeOK ==
    /\ conn \in [Sessions -> TaskStates]
    /\ login \in [Sessions -> Players \cup {None}]
    /\ row \in [Sessions -> Rows]
    /\ open \in SUBSET Sessions /\ kicked \in SUBSET Sessions
    /\ bound \in [Sessions -> Players \cup {None}]
    /\ current \in [Players -> Sessions \cup {None}]
    /\ previous \in [Sessions -> Sessions \cup {None}]
    /\ lifecycle \in Seq([kind : {"connect", "disconnect"}, session : Sessions])
    /\ active \in [Players -> Sessions \cup {None}]
    /\ entity \in [Players -> Entities \cup {None}]
    /\ dirty \in SUBSET (Players \X Sessions)
    /\ saves \in Seq([player : Players, row : Rows])
    /\ db \in [Players -> Rows]
    /\ last \in [Players -> 0..MaxValue]

\* active_players and the PlayerConnection component name the same session,
\* and an active player has an entity of that session's incarnation.
ActiveOwnsEntity ==
    \A p \in Players :
        /\ active[p] # None => entity[p] # None
        /\ entity[p] # None =>
             /\ entity[p].session = active[p]
             /\ active[p] # None => entity[p].incarnation = active[p]

\* A dirty entity is in the registry under its current incarnation, so the
\* next flush finds it, across saturation, reconnects and offline entities.
DirtyIsRegistered ==
    \A p \in Players :
        entity[p] # None /\ entity[p].dirty => <<p, entity[p].incarnation>> \in dirty

\* The latest save of player p that is still queued, if there is one.
IsLatestSave(i, p) ==
    /\ saves[i].player = p
    /\ \A j \in DOMAIN saves : saves[j].player = p => j <= i

\* What will be on disk for a player without an entity is the state in which
\* the last entity was removed (disconnect_in_tick publishes the final row):
\* the row of its latest queued save or, without one, its row in the table.
OfflineIsSaved ==
    \A p \in Players :
        entity[p] = None =>
            /\ \A i \in DOMAIN saves : IsLatestSave(i, p) => saves[i].row.value = last[p]
            /\ (\A i \in DOMAIN saves : saves[i].player # p) => db[p].value = last[p]

\* The hub's mapping points to an open session of that player, and an open
\* session that was replaced has been kicked or is about to be
\* (bind_player, close).
HubIsConsistent ==
    /\ \A p \in Players : current[p] # None => current[p] \in open /\ bound[current[p]] = p
    /\ \A s \in open :
         bound[s] # None /\ current[bound[s]] # s =>
             s \in kicked \/ \E t \in Sessions : conn[t] = "kick" /\ previous[t] = s

\* A session whose task ran to its end is not the active one for ever: its
\* Connect and Disconnect are applied in that order.
GoneBecomesInactive ==
    \A s \in Sessions : (conn[s] = "gone") ~> (\A p \in Players : active[p] # s)
==============================================================================
