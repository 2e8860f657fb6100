------------------------------ MODULE AdminPanel ------------------------------
(***************************************************************************)
(* The operator's page (admin/app.js): one token, one set of statistics    *)
(* and one map on display, and any number of fetches in the air, of which  *)
(* only the ones of refreshAll are kept from overlapping.                  *)
(*                                                                         *)
(* The server is external: what it holds is a version number, which an     *)
(* edit, or somebody else, raises; an answer carries the version of the    *)
(* moment the server handled the request.  A fetch is sent, then handled   *)
(* or lost (perhaps after it was handled), then its continuation runs.     *)
(***************************************************************************)
EXTENDS Integers

CONSTANTS
    MaxVersion,     \* bound on the changes of the server's data
    MaxLost         \* bound on the requests that end in a network error

ASSUME BoundsAssumption == MaxVersion \in Nat /\ MaxLost \in Nat

VARIABLES
    token,          \* of the Authorization header, also kept in localStorage
    currentView,
    statsData,      \* version on display, or NoData
    mapData,
    mapDrawn,       \* the canvas shows mapData
    refreshTimer,   \* the interval of the auto-refresh box is set
    requestInFlight,
    status,         \* the status line
    fetches,        \* the request each async function waits for
    version,        \* external: what the server holds
    lost            \* network errors so far

panel == <<token, currentView, statsData, mapData, mapDrawn, refreshTimer,
           requestInFlight, status>>
vars == <<panel, fetches, version, lost>>

NoData == -1
Versions == NoData..MaxVersion
GoodToken == "good"
Tokens == {"", "old", GoodToken}
Views == {"overview", "map"}
Edits == {"players", "forms"}

(* refreshAll waits for the statistics and then for the map, in that order *)
(* and never for both; a second refresh at the same time would have a      *)
(* request of its own, as loadMap of switchView, an edit and a login have. *)
Refreshes == {"stats", "stats2"}
Callers == Refreshes \cup {"refreshMap", "viewMap", "edit", "auth"}

Idle == [at |-> "idle", what |-> "", ok |-> FALSE, data |-> NoData]
(* ok of a request on its way: its token is the one the server accepts. *)
Sent(what, tok) == [at |-> "sent", what |-> what, ok |-> tok = GoodToken, data |-> NoData]

(* The script ends with a first refresh if a token is kept from the last   *)
(* visit.                                                                  *)
FirstFetches(tok) ==
    [c \in Callers |-> IF c = "stats" /\ tok # "" THEN Sent("get", tok) ELSE Idle]

Init ==
    /\ token \in Tokens
    /\ currentView = "overview"
    /\ statsData = NoData /\ mapData = NoData /\ mapDrawn = FALSE
    /\ refreshTimer = TRUE
    /\ requestInFlight = (token # "")
    /\ status = "none"
    /\ fetches = FirstFetches(token)
    /\ version = 0 /\ lost = 0

----------------------------------------------------------------------------
(***************************************************************************)
(* The network and the server.                                             *)
(***************************************************************************)
Answered(r, ok) ==
    [at |-> "done", what |-> r.what, ok |-> ok, data |-> IF ok THEN version' ELSE NoData]

(* A token is checked first; an edit may also be refused. *)
Serve(c) ==
    /\ fetches[c].at = "sent"
    /\ \E ok \in {fetches[c].ok, fetches[c].ok /\ c # "edit"} :
          /\ version' = IF c = "edit" /\ ok THEN version + 1 ELSE version
          /\ version' <= MaxVersion
          /\ fetches' = [fetches EXCEPT ![c] = Answered(@, ok)]
    /\ UNCHANGED <<panel, lost>>

(* The network fails before the server saw the request, or after. *)
Lose(c) ==
    /\ fetches[c].at \in {"sent", "done"}
    /\ lost < MaxLost
    /\ lost' = lost + 1
    /\ fetches' = [fetches EXCEPT ![c] =
          [at |-> "lost", what |-> @.what, ok |-> FALSE, data |-> NoData]]
    /\ UNCHANGED <<panel, version>>

ServerChanges ==
    /\ version < MaxVersion
    /\ version' = version + 1
    /\ UNCHANGED <<panel, fetches, lost>>

----------------------------------------------------------------------------
(***************************************************************************)
(* The page.  f is the fetches once the request at hand is settled.        *)
(***************************************************************************)
GetStats(f, tok) ==
    [f EXCEPT ![IF f["stats"] = Idle THEN "stats" ELSE "stats2"] = Sent("get", tok)]

\* Mutant: refreshes may overlap.
refreshAlways(f, tok) ==
    IF tok = "" THEN fetches' = f /\ UNCHANGED requestInFlight
    ELSE /\ fetches' = GetStats(f, tok)
         /\ requestInFlight' = TRUE
(* refreshAll: not without a token and not while another one runs. *)
refreshAll(f, tok) ==
    IF tok = "" \/ requestInFlight
    THEN fetches' = f /\ UNCHANGED requestInFlight
    ELSE /\ fetches' = GetStats(f, tok)
         /\ requestInFlight' = TRUE

Settled(c) == [fetches EXCEPT ![c] = Idle]
Done(c) == fetches[c].at \in {"done", "lost"}

\* Mutant: the flag is not cleared when there is no answer.
StatsArriveOrHang(c) ==
    /\ Done(c)
    /\ fetches' = Settled(c)
    /\ \/ /\ ~fetches[c].ok
          /\ status' = "bad"
          /\ UNCHANGED <<requestInFlight, statsData>>
       \/ /\ fetches[c].ok
          /\ statsData' = fetches[c].data
          /\ requestInFlight' = FALSE
          /\ status' = "ok"
    /\ UNCHANGED <<token, currentView, mapData, mapDrawn, refreshTimer, version, lost>>
(* The page asks for the map as part of a refresh if it shows it or has    *)
(* none yet.                                                               *)
StatsArrive(c) ==
    /\ Done(c)
    /\ IF ~fetches[c].ok
       THEN /\ fetches' = Settled(c)
            /\ requestInFlight' = FALSE
            /\ status' = "bad"
            /\ UNCHANGED statsData
       ELSE /\ statsData' = fetches[c].data
            /\ IF currentView = "map" \/ mapData = NoData
               THEN /\ fetches' = [Settled(c) EXCEPT !["refreshMap"] = Sent("get", token)]
                    /\ UNCHANGED <<requestInFlight, status>>
               ELSE /\ fetches' = Settled(c)
                    /\ requestInFlight' = FALSE
                    /\ status' = "ok"
    /\ UNCHANGED <<token, currentView, mapData, mapDrawn, refreshTimer, version, lost>>

(* The part of loadMap after its fetch. *)
ShowMap(r) ==
    IF r.ok THEN /\ mapData' = r.data
                 /\ mapDrawn' = (currentView = "map" \/ (mapDrawn /\ r.data = mapData))
    ELSE UNCHANGED <<mapData, mapDrawn>>

(* A map that failed to load does not keep the refresh from reporting ok. *)
RefreshMapArrives ==
    /\ Done("refreshMap")
    /\ ShowMap(fetches["refreshMap"])
    /\ fetches' = Settled("refreshMap")
    /\ requestInFlight' = FALSE
    /\ status' = "ok"
    /\ UNCHANGED <<token, currentView, statsData, refreshTimer, version, lost>>

ViewMapArrives ==
    /\ Done("viewMap")
    /\ ShowMap(fetches["viewMap"])
    /\ fetches' = Settled("viewMap")
    /\ status' = IF fetches["viewMap"].ok THEN status ELSE "bad"
    /\ UNCHANGED <<token, currentView, statsData, refreshTimer, requestInFlight, version, lost>>

(* setPlayerRole, kickPlayer and deleteEvent refresh in any case, the two  *)
(* forms only when they were saved.                                        *)
EditArrives ==
    /\ Done("edit")
    /\ IF fetches["edit"].what = "forms" /\ ~fetches["edit"].ok
       THEN fetches' = Settled("edit") /\ UNCHANGED requestInFlight
       ELSE refreshAll(Settled("edit"), token)
    /\ status' \in IF fetches["edit"].ok THEN {status} ELSE {status, "bad"}
    /\ UNCHANGED <<token, currentView, statsData, mapData, mapDrawn, refreshTimer, version, lost>>

(* authenticate.  A network error here is not caught: nothing changes. *)
AuthArrives ==
    /\ Done("auth")
    /\ \/ /\ fetches["auth"].ok
          /\ token' = GoodToken
          /\ status' = "ok"
          /\ refreshAll(Settled("auth"), GoodToken)
       \/ /\ ~fetches["auth"].ok
          /\ status' = IF fetches["auth"].at = "lost" THEN status ELSE "bad"
          /\ fetches' = Settled("auth")
          /\ UNCHANGED <<token, requestInFlight>>
    /\ UNCHANGED <<currentView, statsData, mapData, mapDrawn, refreshTimer, version, lost>>

----------------------------------------------------------------------------
\* Mutant: the timer gives up once the last refresh has failed.
TickWhileOk ==
    /\ refreshTimer /\ status # "bad"
    /\ token # "" /\ ~requestInFlight
    /\ refreshAll(fetches, token)
    /\ UNCHANGED <<token, currentView, statsData, mapData, mapDrawn, refreshTimer, status, version, lost>>
(* The timer, and the button that does the same. *)
Refresh(allowed) ==
    /\ allowed
    /\ token # "" /\ ~requestInFlight
    /\ refreshAll(fetches, token)
    /\ UNCHANGED <<token, currentView, statsData, mapData, mapDrawn, refreshTimer, status, version, lost>>
Tick == Refresh(refreshTimer)
ClickRefresh == Refresh(TRUE)

ToggleAutoRefresh ==
    /\ refreshTimer' = ~refreshTimer
    /\ UNCHANGED <<token, currentView, statsData, mapData, mapDrawn, requestInFlight, status, fetches, version, lost>>

Login ==
    /\ fetches["auth"] = Idle
    /\ \E typed \in Tokens : fetches' = [fetches EXCEPT !["auth"] = Sent("auth", typed)]
    /\ UNCHANGED <<panel, version, lost>>

Edit(kind) ==
    /\ fetches["edit"] = Idle
    /\ fetches' = [fetches EXCEPT !["edit"] = Sent(kind, token)]
    /\ UNCHANGED <<panel, version, lost>>

(* switchView: the map is asked for at once, whatever else is in the air;  *)
(* one such request at a time is a bound of the model.                     *)
switchView(v) ==
    /\ currentView' = v
    /\ IF v = "map"
       THEN /\ fetches["viewMap"] = Idle
            /\ fetches' = [fetches EXCEPT !["viewMap"] = Sent("get", token)]
       ELSE UNCHANGED fetches
    /\ UNCHANGED <<token, statsData, mapData, mapDrawn, refreshTimer, requestInFlight, status, version, lost>>

(* renderMap draws the map there is, if there is one. *)
renderMap == mapData # NoData /\ mapDrawn' = TRUE

(* The map is moved, zoomed or reset, and drawn anew. *)
HandleMap ==
    /\ renderMap
    /\ UNCHANGED <<token, currentView, statsData, mapData, refreshTimer, requestInFlight, status, fetches, version, lost>>

Network == \E c \in Callers : Serve(c)
Continue == (\E c \in Refreshes : StatsArrive(c)) \/ RefreshMapArrives \/ ViewMapArrives \/ EditArrives \/ AuthArrives

Next ==
    \/ Network \/ Continue \/ Tick
    \/ \E c \in Callers : Lose(c)
    \/ ServerChanges
    \/ ClickRefresh \/ ToggleAutoRefresh \/ Login
    \/ \E kind \in Edits : Edit(kind)
    \/ \E v \in Views : switchView(v)
    \/ HandleMap

Spec == Init /\ [][Next]_vars

(* Every fetch settles, every continuation runs and the interval fires:    *)
(* there is no timeout, so a fetch that never settles stops the page.      *)
Fairness ==
    /\ \A c \in Callers : WF_vars(Serve(c))
    /\ (\A c \in Refreshes : WF_vars(StatsArrive(c))) /\ WF_vars(RefreshMapArrives) /\ WF_vars(ViewMapArrives)
    /\ WF_vars(EditArrives) /\ WF_vars(AuthArrives)
    /\ WF_vars(Tick)
FairSpec == Spec /\ Fairness

----------------------------------------------------------------------------
(***************************************************************************)
(* Properties.                                                             *)
(***************************************************************************)
(* The statistics on display never go back to an older version: answers to *)
(* /stats cannot overtake each other, whoever called refreshAll.           *)
StatsNeverGoBack == [][statsData' >= statsData]_vars

(* requestInFlight is set exactly while a refresh waits for one of its two *)
(* answers: on every path, failures included, the page can refresh again.  *)
FlagTellsRefresh ==
    requestInFlight <=> (\E c \in Refreshes \cup {"refreshMap"} : fetches[c] # Idle)

(* With auto-refresh on and a valid token the page catches up: what the    *)
(* statistics show is what the server holds and the status says so, even   *)
(* if the refresh after an edit was skipped because an older one was       *)
(* running, or that one failed.                                            *)
Working == refreshTimer /\ token = GoodToken
StatsCatchUp == <>[]Working => []<>(statsData = version /\ status = "ok")

(* The map on the canvas catches up too, although requests for it overlap  *)
(* and the last answer to arrive need not be the newest.                   *)
MapCatchesUp ==
    <>[](Working /\ currentView = "map") => []<>(mapData = version /\ mapDrawn)

(* Both views of the page catch up, each with requests of its own and with *)
(* the shared refresh.                                                     *)
PageCatchesUp == StatsCatchUp /\ MapCatchesUp
===============================================================================
