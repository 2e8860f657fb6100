--------------------------- MODULE AdminPanelProofs ---------------------------
(***************************************************************************)
(* The refresh of the operator's page, for any number of changes of the    *)
(* server's data and of network errors.                                    *)
(***************************************************************************)
EXTENDS AdminPanel, TLAPS

Whats == {"", "get", "auth"} \cup Edits
FetchStates == [at : {"idle", "sent", "done", "lost"}, what : Whats, ok : BOOLEAN, data : Int]
Exclusive == Refreshes \cup {"refreshMap"}

(* What the types of the proof say: a request is idle only as Idle, and    *)
(* one that was lost has no answer.                                        *)
FetchType ==
    /\ fetches \in [Callers -> FetchStates]
    /\ \A c \in Callers : fetches[c].at = "idle" => fetches[c] = Idle
    /\ \A c \in Callers : fetches[c].at = "lost" => ~fetches[c].ok
    /\ requestInFlight \in BOOLEAN /\ statsData \in Int /\ version \in Int

(* Of the requests of refreshAll at most one is in the air. *)
OneRefresh == \A c, d \in Exclusive : fetches[c] # Idle /\ fetches[d] # Idle => c = d

(* An answer to /stats that waits for its continuation is not older than   *)
(* what is on display, and nothing is newer than the server.               *)
AnswersAreNewer ==
    /\ statsData <= version
    /\ \A c \in Refreshes : fetches[c].at = "done" /\ fetches[c].ok =>
          statsData <= fetches[c].data /\ fetches[c].data <= version

PanelInv == FetchType /\ OneRefresh /\ AnswersAreNewer /\ FlagTellsRefresh

LEMMA Names ==
  /\ "stats" \in Exclusive /\ "stats2" \in Exclusive /\ "refreshMap" \in Exclusive
  /\ Exclusive \subseteq Callers /\ Refreshes \subseteq Exclusive
  /\ "stats" \in Refreshes /\ "stats2" \in Refreshes /\ "refreshMap" \notin Refreshes
  /\ {"viewMap", "edit", "auth"} \subseteq Callers
  /\ {"viewMap", "edit", "auth"} \cap Exclusive = {}
BY DEF Exclusive, Refreshes, Callers

LEMMA IdleRequest == Idle \in FetchStates /\ Idle.at = "idle" /\ ~Idle.ok
BY DEF Idle, FetchStates, Whats, NoData

LEMMA SentRequest ==
  ASSUME NEW what \in Whats, NEW tok
  PROVE  /\ Sent(what, tok) \in FetchStates
         /\ Sent(what, tok).at = "sent" /\ Sent(what, tok) # Idle
<1> DEFINE good == tok = GoodToken
<1>1. good \in BOOLEAN
  OBVIOUS
<1>2. Sent(what, tok) = [at |-> "sent", what |-> what, ok |-> good, data |-> -1]
  BY DEF Sent, NoData
<1> HIDE DEF good
<1>3. Sent(what, tok) \in FetchStates
  BY <1>1, <1>2 DEF FetchStates
<1>4. Sent(what, tok).at = "sent"
  BY <1>2
<1> QED
  BY <1>3, <1>4, IdleRequest

(* A request that is answered or lost. *)
LEMMA SettledRequest ==
  ASSUME NEW q \in FetchStates, NEW at \in {"idle", "sent", "done", "lost"},
         NEW ok \in BOOLEAN, NEW data \in Int
  PROVE  LET r == [at |-> at, what |-> q.what, ok |-> ok, data |-> data]
         IN r \in FetchStates /\ r.at = at /\ r.ok = ok /\ r.data = data
BY DEF FetchStates

LEMMA StartOfPanel == Init => PanelInv
<1> SUFFICES ASSUME Init PROVE PanelInv
  OBVIOUS
<1> DEFINE r == Sent("get", token)
<1>1. fetches = [c \in Callers |-> IF c = "stats" /\ token # "" THEN r ELSE Idle]
  BY DEF Init, FirstFetches
<1>0. r \in FetchStates /\ r.at = "sent" /\ r # Idle
  BY SentRequest DEF Whats
<1> HIDE DEF r
<1>2. requestInFlight = (token # "")
  BY DEF Init
<1>8. statsData = -1 /\ version = 0
  BY DEF Init, NoData
<1>3. FetchType
  <2>1. requestInFlight \in BOOLEAN
    BY <1>2
  <2>2. \A c \in Callers : fetches[c] = r \/ fetches[c] = Idle
    BY <1>1
  <2>3. fetches \in [Callers -> FetchStates]
    BY <1>0, <1>1, IdleRequest
  <2>4. \A c \in Callers : fetches[c].at = "idle" => fetches[c] = Idle
    BY <1>0, <2>2
  <2>5. \A c \in Callers : fetches[c].at = "lost" => ~fetches[c].ok
    BY <1>0, <2>2, IdleRequest
  <2> QED
    BY <1>8, <2>1, <2>3, <2>4, <2>5 DEF FetchType
<1>4. \A c \in Callers : fetches[c] # Idle => c = "stats" /\ token # "" /\ fetches[c].at = "sent"
  BY <1>1, <1>0, IdleRequest
<1>5. OneRefresh
  BY <1>4, Names DEF OneRefresh
<1>6. AnswersAreNewer
  <2>1. \A c \in Callers : fetches[c].at # "done"
    BY <1>4, IdleRequest
  <2> QED
    BY <1>8, <2>1, Names DEF AnswersAreNewer
<1>7. FlagTellsRefresh
  BY <1>1, <1>2, <1>4, Names, <1>0, IdleRequest DEF FlagTellsRefresh, Exclusive
<1> QED
  BY <1>3, <1>5, <1>6, <1>7 DEF PanelInv

(* A step that changes one request of the page that is not part of a       *)
(* refresh, and neither flag nor statistics, keeps the invariant.          *)
LEMMA OtherRequest ==
  ASSUME PanelInv, NEW c \in Callers \ Exclusive, NEW r \in FetchStates,
         r.at = "idle" => r = Idle, r.at = "lost" => ~r.ok,
         fetches' = [fetches EXCEPT ![c] = r],
         UNCHANGED <<requestInFlight, statsData>>, version' \in Int, version <= version'
  PROVE  PanelInv'
<1>1. \A d \in Exclusive : fetches'[d] = fetches[d]
  BY Names DEF PanelInv, FetchType
<1>2. FetchType'
  BY DEF PanelInv, FetchType
<1>3. OneRefresh' /\ FlagTellsRefresh'
  BY <1>1 DEF PanelInv, OneRefresh, FlagTellsRefresh, Exclusive
<1>4. AnswersAreNewer'
  <2>1. \A d \in Refreshes : fetches[d].data \in Int
    BY Names DEF PanelInv, FetchType, FetchStates
  <2> QED
    BY <1>1, <2>1, Names DEF PanelInv, AnswersAreNewer, FetchType
<1> QED
  BY <1>2, <1>3, <1>4 DEF PanelInv

(* The same for a step that leaves the requests alone. *)
LEMMA NoRequest ==
  ASSUME PanelInv, UNCHANGED <<fetches, requestInFlight, statsData>>,
         version' \in Int, version <= version'
  PROVE  PanelInv'
<1>1. \A d \in Refreshes : fetches[d].data \in Int
  BY Names DEF PanelInv, FetchType, FetchStates
<1> QED
  BY <1>1 DEF PanelInv, FetchType, OneRefresh, FlagTellsRefresh, AnswersAreNewer

(* refreshAll, called with the request at hand settled or without one: it  *)
(* starts a refresh only if none is in the air.                            *)
LEMMA RefreshStarts ==
  ASSUME PanelInv, NEW f, NEW tok,
         \/ f = fetches
         \/ \E c \in Callers \ Exclusive : f = [fetches EXCEPT ![c] = Idle],
         refreshAll(f, tok), UNCHANGED <<statsData, version>>
  PROVE  PanelInv'
<1>1. /\ f \in [Callers -> FetchStates]
      /\ \A d \in Exclusive : f[d] = fetches[d]
      /\ \A d \in Callers : f[d].at = "idle" => f[d] = Idle
      /\ \A d \in Callers : f[d].at = "lost" => ~f[d].ok
  BY Names, IdleRequest DEF PanelInv, FetchType
<1>2. CASE fetches' = f /\ UNCHANGED requestInFlight
  BY <1>1, <1>2, Names DEF PanelInv, FetchType, OneRefresh, FlagTellsRefresh, AnswersAreNewer, Exclusive
<1>3. CASE ~requestInFlight /\ fetches' = GetStats(f, tok) /\ requestInFlight' = TRUE
  <2> DEFINE r == Sent("get", tok)
  <2>0. r \in FetchStates /\ r.at = "sent" /\ r # Idle
    BY SentRequest DEF Whats
  <2>1. \A d \in Exclusive : f[d] = Idle
    BY <1>1, <1>3 DEF PanelInv, FlagTellsRefresh, Exclusive
  <2>2. fetches' = [f EXCEPT !["stats"] = r]
    BY <1>3, <2>1, Names DEF GetStats
  <2> HIDE DEF r
  <2>3. /\ fetches'["stats"] = r
        /\ \A d \in Callers \ {"stats"} : fetches'[d] = f[d]
    BY <1>1, <2>2, Names
  <2>4. FetchType'
    BY <1>1, <1>3, <2>2, <2>3, Names, <2>0, IdleRequest DEF PanelInv, FetchType
  <2>5. OneRefresh' /\ FlagTellsRefresh'
    BY <1>3, <2>1, <2>3, Names, <2>0, IdleRequest DEF OneRefresh, FlagTellsRefresh, Exclusive
  <2>6. AnswersAreNewer'
    BY <2>1, <2>3, Names, <2>0, IdleRequest DEF PanelInv, AnswersAreNewer
  <2> QED
    BY <2>4, <2>5, <2>6 DEF PanelInv
<1> QED
  BY <1>2, <1>3 DEF refreshAll, PanelInv, FetchType

(* One step of the page, the network or the server. *)
LEMMA StepOfPanel == PanelInv /\ [Next]_vars => PanelInv'
<1> SUFFICES ASSUME PanelInv, [Next]_vars PROVE PanelInv'
  OBVIOUS
<1>0. version \in Int /\ version <= version
  BY DEF PanelInv, FetchType
<1>1. CASE UNCHANGED vars
  BY <1>0, <1>1, NoRequest DEF vars, panel
<1>2. ASSUME NEW c \in Callers, Serve(c) PROVE PanelInv'
  <2>1. PICK ok \in {fetches[c].ok, fetches[c].ok /\ c # "edit"} :
          /\ version' = IF c = "edit" /\ ok THEN version + 1 ELSE version
          /\ fetches' = [fetches EXCEPT ![c] = Answered(@, ok)]
    BY <1>2 DEF Serve
  <2> DEFINE r == Answered(fetches[c], ok)
  <2>2. ok \in BOOLEAN
    BY <2>1 DEF PanelInv, FetchType, FetchStates
  <2>3. version' \in Int /\ version <= version' /\ (c # "edit" => version' = version)
    BY <1>0, <2>1
  <2>4. UNCHANGED <<requestInFlight, statsData>> /\ fetches[c].at = "sent"
    BY <1>2 DEF Serve, panel
  <2>5. /\ r \in FetchStates /\ r.at = "done" /\ r.ok = ok
        /\ ok => r.data = version'
    <3> DEFINE data == IF ok THEN version' ELSE NoData
    <3>1. data \in Int /\ fetches[c] \in FetchStates
      BY <2>2, <2>3 DEF PanelInv, FetchType, NoData
    <3>2. r = [at |-> "done", what |-> fetches[c].what, ok |-> ok, data |-> data]
      BY DEF Answered
    <3>3. ok => data = version'
      OBVIOUS
    <3> HIDE DEF data, r
    <3> QED
      BY <2>2, <3>1, <3>2, <3>3, SettledRequest
  <2>6. fetches' = [fetches EXCEPT ![c] = r]
    BY <2>1
  <2> HIDE DEF r
  <2>7. CASE c \notin Exclusive
    BY <2>3, <2>4, <2>5, <2>6, <2>7, OtherRequest
  <2>8. CASE c \in Exclusive
    <3>1. c # "edit" /\ version' = version
      BY <2>3, <2>8, Names
    <3>2. fetches'[c] = r /\ \A d \in Callers \ {c} : fetches'[d] = fetches[d]
      BY <2>6 DEF PanelInv, FetchType
    <3>3. fetches[c] # Idle /\ r # Idle
      BY <2>4, <2>5, IdleRequest
    <3>4. FetchType'
      BY <2>3, <2>4, <2>5, <2>6, <3>2 DEF PanelInv, FetchType
    <3>5. OneRefresh' /\ FlagTellsRefresh'
      BY <2>4, <2>8, <3>2, <3>3, Names DEF PanelInv, OneRefresh, FlagTellsRefresh, Exclusive
    <3>6. AnswersAreNewer'
      BY <2>4, <2>5, <3>1, <3>2, Names DEF PanelInv, AnswersAreNewer, FetchType
    <3> QED
      BY <3>4, <3>5, <3>6 DEF PanelInv
  <2> QED
    BY <2>7, <2>8
<1>3. ASSUME NEW c \in Callers, Lose(c) PROVE PanelInv'
  <2> DEFINE r == [at |-> "lost", what |-> fetches[c].what, ok |-> FALSE, data |-> NoData]
  <2>1. fetches' = [fetches EXCEPT ![c] = r] /\ fetches[c].at \in {"sent", "done"}
    BY <1>3 DEF Lose
  <2>2. UNCHANGED <<requestInFlight, statsData, version>>
    BY <1>3 DEF Lose, panel
  <2>3. r \in FetchStates /\ r.at = "lost" /\ ~r.ok
    <3>1. fetches[c] \in FetchStates /\ NoData \in Int
      BY DEF PanelInv, FetchType, NoData
    <3> QED
      BY <3>1, SettledRequest
  <2> HIDE DEF r
  <2>4. fetches'[c] = r /\ \A d \in Callers \ {c} : fetches'[d] = fetches[d]
    BY <2>1 DEF PanelInv, FetchType
  <2>5. fetches[c] # Idle /\ r # Idle
    BY <2>1, <2>3, IdleRequest
  <2>6. FetchType'
    BY <2>1, <2>2, <2>3, <2>4 DEF PanelInv, FetchType
  <2>7. OneRefresh' /\ FlagTellsRefresh'
    BY <2>2, <2>4, <2>5, Names DEF PanelInv, OneRefresh, FlagTellsRefresh, Exclusive
  <2>8. AnswersAreNewer'
    BY <2>2, <2>3, <2>4, Names DEF PanelInv, AnswersAreNewer
  <2> QED
    BY <2>6, <2>7, <2>8 DEF PanelInv
<1>4. CASE ServerChanges
  BY <1>0, <1>4, NoRequest DEF ServerChanges, panel
<1>5. ASSUME NEW c \in Refreshes, StatsArrive(c) PROVE PanelInv'
  <2> DEFINE r == Sent("get", token)
  <2>1. r \in FetchStates /\ r.at = "sent" /\ r # Idle
    BY SentRequest DEF Whats
  <2>2. c \in Exclusive /\ fetches[c] # Idle /\ version' = version
    BY <1>5, Names, IdleRequest DEF StatsArrive, Done
  <2>3. \A d \in Exclusive \ {c} : fetches[d] = Idle
    BY <2>2 DEF PanelInv, OneRefresh
  <2>4. /\ statsData' \in Int /\ statsData <= statsData' /\ statsData' <= version
    <3>1. CASE fetches[c].ok
      <4>1. fetches[c].at = "done" /\ statsData' = fetches[c].data
        BY <1>5, <2>2, <3>1, Names DEF StatsArrive, Done, PanelInv, FetchType
      <4> QED
        BY <2>2, <3>1, <4>1, Names DEF PanelInv, AnswersAreNewer, FetchType, FetchStates
    <3>2. CASE ~fetches[c].ok
      BY <1>5, <1>0, <3>2 DEF StatsArrive, PanelInv, AnswersAreNewer, FetchType
    <3> QED BY <3>1, <3>2
  <2>5. CASE fetches' = [fetches EXCEPT ![c] = Idle] /\ requestInFlight' = FALSE
    <3>1. \A d \in Exclusive : fetches'[d] = Idle
      BY <2>2, <2>3, <2>5, Names DEF PanelInv, FetchType
    <3>2. FetchType'
      BY <2>2, <2>4, <2>5, Names, IdleRequest DEF PanelInv, FetchType
    <3>3. OneRefresh' /\ FlagTellsRefresh'
      BY <2>5, <3>1 DEF OneRefresh, FlagTellsRefresh, Exclusive
    <3>4. AnswersAreNewer'
      BY <2>2, <2>4, <3>1, Names, IdleRequest DEF AnswersAreNewer
    <3> QED BY <3>2, <3>3, <3>4 DEF PanelInv
  <2>6. CASE /\ fetches' = [[fetches EXCEPT ![c] = Idle] EXCEPT !["refreshMap"] = r]
             /\ UNCHANGED requestInFlight
    <3> HIDE DEF r
    <3>1. fetches'["refreshMap"] = r /\ \A d \in Refreshes : fetches'[d] = Idle
      BY <2>2, <2>3, <2>6, Names DEF PanelInv, FetchType
    <3>2. FetchType'
      BY <2>1, <2>2, <2>4, <2>6, Names, IdleRequest DEF PanelInv, FetchType
    <3>3. requestInFlight
      BY <2>2 DEF PanelInv, FlagTellsRefresh, Exclusive
    <3>4. OneRefresh' /\ FlagTellsRefresh'
      BY <2>1, <2>6, <3>1, <3>3 DEF OneRefresh, FlagTellsRefresh, Exclusive
    <3>5. AnswersAreNewer'
      BY <2>2, <2>4, <3>1, IdleRequest DEF AnswersAreNewer
    <3> QED BY <3>2, <3>4, <3>5 DEF PanelInv
  <2> QED
    BY <1>5, <2>5, <2>6 DEF StatsArrive, Settled
<1>6. CASE RefreshMapArrives
  <2>1. /\ fetches' = [fetches EXCEPT !["refreshMap"] = Idle]
        /\ requestInFlight' = FALSE /\ UNCHANGED <<statsData, version>>
        /\ fetches["refreshMap"] # Idle
    BY <1>6, IdleRequest DEF RefreshMapArrives, Settled, Done
  <2>2. \A d \in Exclusive : fetches'[d] = Idle
    BY <2>1, Names DEF PanelInv, OneRefresh, FetchType
  <2>3. FetchType'
    BY <2>1, Names, IdleRequest DEF PanelInv, FetchType
  <2>4. OneRefresh' /\ FlagTellsRefresh'
    BY <2>1, <2>2 DEF OneRefresh, FlagTellsRefresh, Exclusive
  <2>5. AnswersAreNewer'
    BY <2>1, <2>2, Names, IdleRequest DEF PanelInv, AnswersAreNewer
  <2> QED BY <2>3, <2>4, <2>5 DEF PanelInv
<1>7. CASE ViewMapArrives
  BY <1>0, <1>7, OtherRequest, Names, IdleRequest DEF ViewMapArrives, Settled
<1>8. CASE EditArrives
  <2>1. CASE fetches' = Settled("edit") /\ UNCHANGED requestInFlight
    BY <1>0, <1>8, <2>1, OtherRequest, Names, IdleRequest DEF EditArrives, Settled
  <2>2. CASE refreshAll(Settled("edit"), token)
    BY <1>8, <2>2, RefreshStarts, Names DEF EditArrives, Settled
  <2> QED BY <1>8, <2>1, <2>2 DEF EditArrives
<1>9. CASE AuthArrives
  <2>1. CASE fetches' = Settled("auth") /\ UNCHANGED requestInFlight
    BY <1>0, <1>9, <2>1, OtherRequest, Names, IdleRequest DEF AuthArrives, Settled
  <2>2. CASE refreshAll(Settled("auth"), GoodToken)
    BY <1>9, <2>2, RefreshStarts, Names DEF AuthArrives, Settled
  <2> QED BY <1>9, <2>1, <2>2 DEF AuthArrives
<1>10. CASE Tick \/ ClickRefresh
  BY <1>10, RefreshStarts DEF Tick, ClickRefresh, Refresh
<1>11. CASE ToggleAutoRefresh \/ HandleMap
  BY <1>0, <1>11, NoRequest DEF ToggleAutoRefresh, HandleMap
<1>12. CASE Login
  <2>1. PICK typed \in Tokens : fetches' = [fetches EXCEPT !["auth"] = Sent("auth", typed)]
    BY <1>12 DEF Login
  <2>2. Sent("auth", typed) \in FetchStates /\ Sent("auth", typed).at = "sent"
    BY SentRequest DEF Whats
  <2> QED
    BY <1>0, <1>12, <2>1, <2>2, OtherRequest, Names DEF Login, panel
<1>13. ASSUME NEW kind \in Edits, Edit(kind) PROVE PanelInv'
  <2>1. Sent(kind, token) \in FetchStates /\ Sent(kind, token).at = "sent"
    BY SentRequest DEF Whats
  <2> QED
    BY <1>0, <1>13, <2>1, OtherRequest, Names DEF Edit, panel
<1>14. ASSUME NEW v \in Views, switchView(v) PROVE PanelInv'
  <2>1. Sent("get", token) \in FetchStates /\ Sent("get", token).at = "sent"
    BY SentRequest DEF Whats
  <2>2. CASE v = "map"
    BY <1>0, <1>14, <2>1, <2>2, OtherRequest, Names DEF switchView
  <2>3. CASE v # "map"
    BY <1>0, <1>14, <2>3, NoRequest DEF switchView
  <2> QED BY <2>2, <2>3
<1> QED
  BY <1>1, <1>2, <1>3, <1>4, <1>5, <1>6, <1>7, <1>8, <1>9, <1>10, <1>11, <1>12, <1>13, <1>14
  DEF Next, Network, Continue

LEMMA PanelIsSafe == Spec => []PanelInv
BY StartOfPanel, StepOfPanel, PTL DEF Spec

(* requestInFlight is set exactly while a refresh waits for an answer, for *)
(* any number of lost requests and of changes on the server: apiFetch,     *)
(* refreshAll and loadMap clear it on every path.                          *)
THEOREM FlagIsExact == Spec => []FlagTellsRefresh
BY PanelIsSafe, PTL DEF PanelInv

(* The statistics never go back: refreshAll lets no answer to /stats       *)
(* overtake another.                                                       *)
THEOREM StatsOnlyAdvance == Spec => StatsNeverGoBack
<1>1. PanelInv /\ [Next]_vars => [statsData' >= statsData]_vars
  <2> SUFFICES ASSUME PanelInv, Next PROVE statsData' >= statsData
    BY DEF vars
  <2>1. statsData \in Int
    BY DEF PanelInv, FetchType
  <2>2. ASSUME NEW c \in Refreshes, StatsArrive(c) PROVE statsData' >= statsData
    <3>1. CASE fetches[c].ok
      <4>1. fetches[c].at = "done" /\ statsData' = fetches[c].data
        BY <2>2, <3>1, Names DEF StatsArrive, Done, PanelInv, FetchType
      <4>2. fetches[c].data \in Int /\ statsData <= fetches[c].data
        BY <3>1, <4>1, Names DEF PanelInv, AnswersAreNewer, FetchType, FetchStates
      <4> QED BY <2>1, <4>1, <4>2
    <3>2. CASE ~fetches[c].ok
      BY <2>1, <2>2, <3>2 DEF StatsArrive
    <3> QED BY <3>1, <3>2
  <2>3. CASE statsData' = statsData
    BY <2>1, <2>3
  <2> QED
    BY <2>2, <2>3 DEF Next, Network, Continue, Serve, Lose, ServerChanges, RefreshMapArrives,
       ViewMapArrives, EditArrives, AuthArrives, Tick, ClickRefresh, Refresh,
       ToggleAutoRefresh, Login, Edit, switchView, HandleMap, panel
<1> QED
  BY <1>1, PanelIsSafe, PTL DEF Spec, StatsNeverGoBack
===============================================================================
