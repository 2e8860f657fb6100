------------------------------- MODULE Auction -------------------------------
(***************************************************************************)
(* The auction of the market: lots and bids that players place with GUI    *)
(* buttons, the persistence worker that performs them against the orders   *)
(* and players tables, the completions the simulation owner applies to the *)
(* ECS, and the finalizer task that hands a lot over five minutes after    *)
(* its last bid.                                                           *)
(*                                                                         *)
(* A player's money and items live in the ECS while the player is online   *)
(* and in the players table otherwise.  Three tasks write them: the        *)
(* simulation owner and the finalizer write the ECS, the worker and the    *)
(* finalizer the tables.  One kind of item is traded.  A server restart    *)
(* is represented by Init: lots and bids of an earlier process are in the  *)
(* table and any set of players is back online.                            *)
(***************************************************************************)
EXTENDS Integers, Sequences, FiniteSets, Functions

CONSTANTS
    Players,
    None,           \* buyer_id 0, no entity, no row
    Leavers,        \* the players that log in and out
    Costs,          \* prices a seller types; the code takes any i64
    Amounts,        \* bids a player types
    StartMoney,
    StartItems,
    Failing,        \* the database calls that may fail
    MaxFailures,    \* bound on how often they do
    MaxOrders,      \* bound on the lots ever created
    MaxBets,        \* bound on the bids ever placed
    SaveCapacity    \* bound on the save queue

Calls == {"refund", "rollback", "offline", "seller", "buyer", "revoke", "delete"}

ASSUME PlayersAssumption ==
    IsFiniteSet(Players) /\ None \notin Players /\ Leavers \subseteq Players
ASSUME PricesAssumption == Costs \subseteq Int /\ Amounts \subseteq Int
ASSUME WealthAssumption == StartMoney \in Nat /\ StartItems \in Nat
ASSUME BoundsAssumption ==
    /\ MaxOrders \in Nat \ {0} /\ MaxBets \in Nat
    /\ SaveCapacity \in Nat \ {0} /\ MaxFailures \in Nat
ASSUME FailingAssumption == Failing \subseteq Calls /\ None \notin Int

VARIABLES
    entity,      \* PlayerStats.money and PlayerInventory of each online player
    dirty,       \* online players whose entity is newer than its last save
    rows,        \* the players table
    orders,      \* the orders table
    created,     \* its AUTOINCREMENT counter
    bets,        \* bids placed so far
    saves,       \* save commands published and not yet persisted
    bet,         \* the bid the worker is in the middle of
    completions, \* bid results on their way to the simulation owner
    todo,        \* lots the finalizer has listed
    job,         \* the lot the finalizer is handing over
    stage,       \* what it does next with it
    failures,    \* failed database calls so far
    handed,      \* history: how often each lot's items were handed over
    incidents    \* history: the compensations that failed and lots deleted
                 \* over a bid the finalizer had not listed

gameVars == <<entity, dirty>>
workerVars == <<saves, bet, completions>>
finalVars == <<todo, job, stage>>
history == <<handed, incidents>>
vars == <<gameVars, rows, orders, created, bets, workerVars, finalVars, failures, history>>

OrderIds == 1..MaxOrders
Wealth == [money : Int, items : Int]
Orders == [seller : Players, num : Nat \ {0}, cost : Int,
           buyer : Players \cup {None}, fresh : BOOLEAN]
Snapshots == [id : OrderIds, order : Orders]
Incidents == {"overtaken", "rollback", "revoke", "delete"}
Stages == {"idle", "seller", "buyer", "revoke", "delete", "offline"}
Bets == [step : {"cas", "refund", "rollback"}, player : Players, id : OrderIds,
         amount : Int, seen : Orders]

\* None is no record of a table, of the worker or of the finalizer.
ASSUME NoneAssumption == None \notin Wealth \cup Orders \cup Snapshots \cup Bets

Online(p) == entity[p] # None
Fails(call) == call \in Failing /\ failures < MaxFailures /\ failures' = failures + 1
Record(incident) == incidents' = incidents \cup {incident}
Open(o) == orders[o] # None

\* Payments and goods add to a wealth, and take from it when negative.
Earn(w, amount) == [w EXCEPT !.money = @ + amount]
Receive(w, num) == [w EXCEPT !.items = @ + num]
Rebid(order, cost, buyer, fresh) ==
    [order EXCEPT !.cost = cost, !.buyer = buyer, !.fresh = fresh]

\* The highest bid plus one percent, rounded up; the asking price of a lot
\* without a bid.
min_bid(order) ==
    IF order.buyer # None THEN -((-order.cost * 101) \div 100) ELSE order.cost

\* A lot and a bid of an earlier process, or an empty table.
OldLots == {None} \cup
    [seller : Players, num : 1..StartItems, cost : Costs,
     buyer : Players \cup {None}, fresh : {FALSE}]
Paid(old, p) == IF old # None /\ old.buyer = p THEN old.cost ELSE 0
Offered(old, p) == IF old # None /\ old.seller = p THEN old.num ELSE 0

Init ==
    \E old \in OldLots, online \in SUBSET Players :
        /\ rows = [p \in Players |-> [money |-> StartMoney - Paid(old, p),
                                      items |-> StartItems - Offered(old, p)]]
        /\ entity = [p \in Players |-> IF p \in online THEN rows[p] ELSE None]
        /\ orders = [o \in OrderIds |-> IF o = 1 THEN old ELSE None]
        /\ created = IF old = None THEN 0 ELSE 1
        /\ dirty = {} /\ bets = 0 /\ failures = 0
        /\ saves = <<>> /\ bet = None /\ completions = <<>>
        /\ todo = {} /\ job = None /\ stage = "idle"
        /\ handed = [o \in OrderIds |-> 0] /\ incidents = {}
------------------------------------------------------------------------------
(***************************************************************************)
(* Buttons of the auction window.                                          *)
(***************************************************************************)
HasRoom == Len(saves) < SaveCapacity
PendingCreates == Cardinality({i \in DOMAIN saves : saves[i].kind = "create"})

\* aucsetnum: the items leave the inventory before the lot is in the table.
\* With num <= 0 or too few items the window is closed and nothing changes.
SetNum(p, num, cost) ==
    /\ Online(p) /\ num > 0 /\ entity[p].items >= num
    /\ HasRoom /\ created + PendingCreates < MaxOrders
    /\ entity' = [entity EXCEPT ![p] = Receive(@, -num)]
    /\ dirty' = dirty \cup {p}
    /\ saves' = Append(saves, [kind |-> "create", player |-> p, num |-> num, cost |-> cost])
    /\ UNCHANGED <<rows, orders, created, bets, bet, completions, finalVars, failures, history>>

\* aucminbet (amount None) and aucbet: the request carries the money the
\* bidder has now.
AuctionBet(p, o, amount) ==
    /\ Online(p) /\ o <= created
    /\ HasRoom /\ bets < MaxBets
    /\ saves' = Append(saves, [kind |-> "bet", player |-> p, id |-> o, amount |-> amount,
                               money |-> entity[p].money])
    /\ bets' = bets + 1
    /\ UNCHANGED <<gameVars, rows, orders, created, bet, completions, finalVars, failures, history>>
------------------------------------------------------------------------------
(***************************************************************************)
(* The persistence worker.  A transient failure repeats the call and       *)
(* changes nothing; between two calls the finalizer and logins interleave. *)
(***************************************************************************)
Request == Head(saves)
Answer(result) == completions' = Append(completions, result)
Lost(p) == [won |-> FALSE, player |-> p, amount |-> 0, previous |-> None, refund |-> 0]

PersistPlayer ==
    /\ bet = None /\ saves # <<>> /\ Request.kind = "player"
    /\ rows' = [rows EXCEPT ![Request.player] = Request.row]
    /\ saves' = Tail(saves)
    /\ UNCHANGED <<gameVars, orders, created, bets, bet, completions, finalVars, failures, history>>

\* auction_order_create: every error of the insert is transient.
PersistCreate ==
    /\ bet = None /\ saves # <<>> /\ Request.kind = "create"
    /\ created' = created + 1
    /\ orders' = [orders EXCEPT ![created + 1] =
           [seller |-> Request.player, num |-> Request.num, cost |-> Request.cost,
            buyer |-> None, fresh |-> FALSE]]
    /\ saves' = Tail(saves)
    /\ UNCHANGED <<gameVars, rows, bets, bet, completions, finalVars, failures, history>>

AmountOf(request, order) ==
    IF request.amount = None THEN min_bid(order) ELSE request.amount
Acceptable(request, order) ==
    /\ min_bid(order) <= AmountOf(request, order)
    /\ AmountOf(request, order) <= request.money

\* auction_bet up to the compare-and-swap: the lot is read and the bid judged.
ReadOrder ==
    /\ bet = None /\ saves # <<>> /\ Request.kind = "bet"
    /\ saves' = Tail(saves)
    /\ IF Open(Request.id) /\ Acceptable(Request, orders[Request.id])
       THEN /\ bet' = [step |-> "cas", player |-> Request.player, id |-> Request.id,
                       amount |-> AmountOf(Request, orders[Request.id]),
                       seen |-> orders[Request.id]]
            /\ UNCHANGED completions
       ELSE Answer(Lost(Request.player)) /\ UNCHANGED bet
    /\ UNCHANGED <<gameVars, rows, orders, created, bets, finalVars, failures, history>>

Holds(o, buyer, cost) == Open(o) /\ orders[o].buyer = buyer /\ orders[o].cost = cost
Won(b) == [won |-> TRUE, player |-> b.player, amount |-> b.amount,
           previous |-> b.seen.buyer, refund |-> b.seen.cost]

\* try_update_order_bet_cas.
CasBet ==
    /\ bet # None /\ bet.step = "cas"
    /\ IF Holds(bet.id, bet.seen.buyer, bet.seen.cost)
       THEN /\ orders' = [orders EXCEPT ![bet.id] =
                   Rebid(@, bet.amount, bet.player, TRUE)]
            /\ IF bet.seen.buyer # None
               THEN bet' = [bet EXCEPT !.step = "refund"] /\ UNCHANGED completions
               ELSE bet' = None /\ Answer(Won(bet))
       ELSE bet' = None /\ Answer(Lost(bet.player)) /\ UNCHANGED orders
    /\ UNCHANGED <<gameVars, rows, created, bets, saves, finalVars, failures, history>>

\* add_player_money of the outbid buyer, in the table even if he is online.
RefundPrevious ==
    /\ bet # None /\ bet.step = "refund"
    /\ rows' = [rows EXCEPT ![bet.seen.buyer] = Earn(@, bet.seen.cost)]
    /\ bet' = None /\ Answer(Won(bet))
    /\ UNCHANGED <<gameVars, orders, created, bets, saves, finalVars, failures, history>>

RefundFails ==
    /\ bet # None /\ bet.step = "refund"
    /\ Fails("refund")
    /\ bet' = [bet EXCEPT !.step = "rollback"]
    /\ UNCHANGED <<gameVars, rows, orders, created, bets, saves, completions, finalVars, history>>

\* Mutant: a failed refund leaves the new bid in the table.
RollbackNothing ==
    /\ bet # None /\ bet.step = "rollback"
    /\ bet' = None /\ Answer(Lost(bet.player))
    /\ UNCHANGED <<gameVars, rows, orders, created, bets, saves, finalVars, failures, history>>

\* The compare-and-swap back, whose failure is only logged.
RollbackBet ==
    /\ bet # None /\ bet.step = "rollback"
    /\ \/ /\ Holds(bet.id, bet.player, bet.amount)
          /\ orders' = [orders EXCEPT ![bet.id] =
                 Rebid(@, bet.seen.cost, bet.seen.buyer, bet.seen.fresh)]
          /\ UNCHANGED <<failures, incidents>>
       \/ /\ ~Holds(bet.id, bet.player, bet.amount)
          /\ UNCHANGED <<orders, failures, incidents>>
       \/ Fails("rollback") /\ Record("rollback") /\ UNCHANGED orders
    /\ bet' = None /\ Answer(Lost(bet.player))
    /\ UNCHANGED <<gameVars, rows, created, bets, saves, finalVars, handed>>
------------------------------------------------------------------------------
(***************************************************************************)
(* The simulation owner: completions, saves of dirty players, logins.      *)
(***************************************************************************)
Pay(e, p, amount) ==
    [e EXCEPT ![p] = IF @ = None THEN None ELSE Earn(@, amount)]

\* AuctionBetCompleted.  A bidder or an outbid buyer without an entity is
\* skipped; a lost bid only reopens the lot's page.
ApplyCompletion ==
    /\ completions # <<>>
    /\ LET c == Head(completions)
           charged == Pay(entity, c.player, -c.amount)
       IN  IF c.won
           THEN /\ entity' = IF c.previous # None THEN Pay(charged, c.previous, c.refund)
                                                  ELSE charged
                /\ dirty' = dirty \cup {p \in {c.player, c.previous} \ {None} : Online(p)}
           ELSE UNCHANGED gameVars
    /\ completions' = Tail(completions)
    /\ UNCHANGED <<rows, orders, created, bets, saves, bet, finalVars, failures, history>>

Save(p) == Append(saves, [kind |-> "player", player |-> p, row |-> entity[p]])

FlushDirty(p) ==
    /\ p \in dirty /\ HasRoom
    /\ saves' = Save(p)
    /\ dirty' = dirty \ {p}
    /\ UNCHANGED <<entity, rows, orders, created, bets, bet, completions, finalVars,
                   failures, history>>

\* Disconnect saves the row and removes the entity.
Logout(p) ==
    /\ p \in Leavers /\ Online(p) /\ HasRoom
    /\ saves' = Save(p)
    /\ entity' = [entity EXCEPT ![p] = None]
    /\ dirty' = dirty \ {p}
    /\ UNCHANGED <<rows, orders, created, bets, bet, completions, finalVars, failures, history>>

\* Connect spawns the entity from the row; SessionLifecycle has the steps
\* between reading the row and using it.
Login(p) ==
    /\ p \in Leavers /\ ~Online(p)
    /\ entity' = [entity EXCEPT ![p] = rows[p]]
    /\ UNCHANGED <<dirty, rows, orders, created, bets, workerVars, finalVars, failures, history>>
------------------------------------------------------------------------------
(***************************************************************************)
(* The finalizer.                                                          *)
(***************************************************************************)
\* BET_TIMEOUT_SECS after the last bid; the calls of one auction_bet together
\* take less than that.
Ripen(o) ==
    /\ ~(bet # None /\ bet.id = o)
    /\ Open(o) /\ orders[o].buyer # None /\ orders[o].fresh
    /\ orders' = [orders EXCEPT ![o] = [@ EXCEPT !.fresh = FALSE]]
    /\ UNCHANGED <<gameVars, rows, created, bets, workerVars, finalVars, failures, history>>

\* Mutant: a lot that its own seller has won is never ready.
OthersReady ==
    {[id |-> o, order |-> orders[o]] : o \in {o \in OrderIds :
        /\ Open(o) /\ orders[o].buyer \notin {None, orders[o].seller}
        /\ ~orders[o].fresh}}

list_ready_orders ==
    {[id |-> o, order |-> orders[o]] : o \in {o \in OrderIds :
        Open(o) /\ orders[o].buyer # None /\ ~orders[o].fresh}}

ListReady ==
    /\ stage = "idle" /\ todo = {}
    /\ list_ready_orders # {}
    /\ todo' = list_ready_orders
    /\ UNCHANGED <<gameVars, rows, orders, created, bets, workerVars, job, stage, failures, history>>

\* finalize_ready_order chooses its path by who is connected now.
BeginFinalize(s) ==
    /\ stage = "idle" /\ s \in todo
    /\ todo' = todo \ {s}
    /\ job' = s
    /\ stage' = IF Online(s.order.buyer) \/ Online(s.order.seller) THEN "seller" ELSE "offline"
    /\ UNCHANGED <<gameVars, rows, orders, created, bets, workerVars, failures, history>>

Finish == job' = None /\ stage' = "idle" /\ UNCHANGED todo
Remove(s) ==
    /\ orders' = [orders EXCEPT ![s.id] = None]
    /\ IF Holds(s.id, s.order.buyer, s.order.cost) THEN UNCHANGED incidents
                                                   ELSE Record("overtaken")
HandOver(o) == handed' = [handed EXCEPT ![o] = @ + 1]

\* Mutant: the transaction checks only that the lot exists.
StillThere(s) == Open(s.id)

Unchanged(s) == orders[s.id] = s.order
CreditedOffline(s) ==
    [[rows EXCEPT ![s.order.buyer] = Receive(@, s.order.num)]
           EXCEPT ![s.order.seller] = Earn(@, s.order.cost)]

\* finalize_order_offline: one transaction, given up when the lot has changed.
FinalizeOffline ==
    /\ stage = "offline"
    /\ \/ /\ Unchanged(job)
          /\ rows' = CreditedOffline(job)
          /\ Remove(job) /\ HandOver(job.id)
          /\ UNCHANGED failures
       \/ ~Unchanged(job) /\ UNCHANGED <<rows, orders, failures, history>>
       \/ Fails("offline") /\ UNCHANGED <<rows, orders, history>>
    /\ Finish
    /\ UNCHANGED <<gameVars, created, bets, workerVars>>

\* Mutant: a player is marked dirty without an entity.
CreditMoneyMarking(p, amount) ==
    /\ dirty' = dirty \cup {p}
    /\ entity' = Pay(entity, p, amount)
    /\ rows' = IF Online(p) THEN rows ELSE [rows EXCEPT ![p] = Earn(@, amount)]

\* credit_money: the entity if there is one, the table otherwise.
CreditMoney(p, amount) ==
    IF Online(p)
    THEN /\ entity' = Pay(entity, p, amount)
         /\ dirty' = dirty \cup {p}
         /\ UNCHANGED rows
    ELSE /\ rows' = [rows EXCEPT ![p] = Earn(@, amount)]
         /\ UNCHANGED gameVars

\* credit_inventory, the same for items.
CreditItems(p, num) ==
    IF Online(p)
    THEN /\ entity' = [entity EXCEPT ![p] = Receive(@, num)]
         /\ dirty' = dirty \cup {p}
         /\ UNCHANGED rows
    ELSE /\ rows' = [rows EXCEPT ![p] = Receive(@, num)]
         /\ UNCHANGED gameVars

CreditFails(call, p) == ~Online(p) /\ Fails(call) /\ UNCHANGED <<gameVars, rows>>

CreditSeller ==
    /\ stage = "seller"
    /\ \/ /\ CreditMoney(job.order.seller, job.order.cost)
          /\ stage' = "buyer" /\ UNCHANGED <<todo, job, failures>>
       \/ CreditFails("seller", job.order.seller) /\ Finish
    /\ UNCHANGED <<orders, created, bets, workerVars, history>>

CreditBuyer ==
    /\ stage = "buyer"
    /\ \/ /\ CreditItems(job.order.buyer, job.order.num)
          /\ HandOver(job.id) /\ stage' = "delete" /\ UNCHANGED failures
       \/ /\ CreditFails("buyer", job.order.buyer)
          /\ stage' = "revoke" /\ UNCHANGED handed
    /\ UNCHANGED <<orders, created, bets, workerVars, todo, job, incidents>>

\* The seller gives the money back when the buyer could not get the items.
RevokeSeller ==
    /\ stage = "revoke"
    /\ \/ CreditMoney(job.order.seller, -job.order.cost) /\ UNCHANGED <<failures, incidents>>
       \/ CreditFails("revoke", job.order.seller) /\ Record("revoke")
    /\ Finish
    /\ UNCHANGED <<orders, created, bets, workerVars, handed>>

\* Mutant: a lot with a newer bid stays, after it was handed over.
DeleteUnchanged ==
    /\ stage = "delete"
    /\ IF Unchanged(job) THEN Remove(job) ELSE UNCHANGED <<orders, incidents>>
    /\ Finish
    /\ UNCHANGED <<gameVars, rows, created, bets, workerVars, failures, handed>>

\* delete_order: by id, whatever the lot holds by now.
DeleteOrder ==
    /\ stage = "delete"
    /\ \/ Remove(job) /\ UNCHANGED failures
       \/ Fails("delete") /\ Record("delete") /\ UNCHANGED orders
    /\ Finish
    /\ UNCHANGED <<gameVars, rows, created, bets, workerVars, handed>>
------------------------------------------------------------------------------
PlayerStep ==
    \/ \E p \in Players, num \in 1..StartItems, cost \in Costs : SetNum(p, num, cost)
    \/ \E p \in Players, o \in OrderIds, amount \in Amounts \cup {None} : AuctionBet(p, o, amount)
    \/ \E p \in Players : Logout(p) \/ Login(p)

WorkerStep == PersistPlayer \/ PersistCreate \/ ReadOrder \/ CasBet \/ RefundPrevious
                  \/ RefundFails \/ RollbackBet

FinalizeStep ==
    \/ ListReady \/ FinalizeOffline \/ CreditSeller \/ CreditBuyer \/ RevokeSeller \/ DeleteOrder
    \/ \E s \in todo : BeginFinalize(s)

Next == PlayerStep \/ WorkerStep \/ FinalizeStep \/ ApplyCompletion
            \/ (\E p \in Players : FlushDirty(p)) \/ (\E o \in OrderIds : Ripen(o))

Spec == Init /\ [][Next]_vars

\* The worker, the simulation loop and the finalizer loop run until shutdown,
\* and time passes; nobody has to press a button.
Fairness ==
    /\ WF_vars(WorkerStep) /\ WF_vars(FinalizeStep) /\ WF_vars(ApplyCompletion)
    /\ \A o \in OrderIds : WF_vars(Ripen(o))
    /\ \A p \in Players : WF_vars(FlushDirty(p))
FairSpec == Spec /\ Fairness
------------------------------------------------------------------------------
SaveCommands ==
    [kind : {"player"}, player : Players, row : Wealth] \cup
    [kind : {"create"}, player : Players, num : Nat \ {0}, cost : Int] \cup
    [kind : {"bet"}, player : Players, id : OrderIds, amount : Int \cup {None}, money : Int]
Completions == [won : BOOLEAN, player : Players, amount : Int,
                previous : Players \cup {None}, refund : Int]

\* Types: an entity and a row hold money and items, the worker's bid and the
\* finalizer's job hold lots as they were read, and the finalizer has a lot
\* in hand exactly when it is not idle.
TypeOK ==
    /\ entity \in [Players -> Wealth \cup {None}] /\ rows \in [Players -> Wealth]
    /\ dirty \subseteq {p \in Players : Online(p)}
    /\ orders \in [OrderIds -> Orders \cup {None}]
    /\ created \in 0..MaxOrders /\ bets \in 0..MaxBets /\ failures \in 0..MaxFailures
    /\ saves \in Seq(SaveCommands) /\ Len(saves) <= SaveCapacity
    /\ bet \in Bets \cup {None}
    /\ completions \in Seq(Completions)
    /\ todo \subseteq Snapshots /\ job \in Snapshots \cup {None}
    /\ stage \in Stages /\ (stage = "idle" <=> job = None)
    /\ handed \in [OrderIds -> Nat] /\ incidents \subseteq Incidents

WealthOf(p) == IF Online(p) THEN entity[p] ELSE rows[p]
MoneyOf(p) == WealthOf(p).money
ItemsOf(p) == WealthOf(p).items
Escrow(o) == IF Open(o) /\ orders[o].buyer # None THEN orders[o].cost ELSE 0
OnOffer(o) == IF Open(o) /\ ~(stage = "delete" /\ job.id = o) THEN orders[o].num ELSE 0
BeingOffered(i) == IF saves[i].kind = "create" THEN saves[i].num ELSE 0
Quiet == saves = <<>> /\ bet = None /\ completions = <<>> /\ stage = "idle"
Purses == [p \in Players |-> MoneyOf(p)]
Escrows == [o \in OrderIds |-> Escrow(o)]
Inventories == [p \in Players |-> ItemsOf(p)]
Offers == [o \in OrderIds |-> OnOffer(o)]
NewOffers == [i \in DOMAIN saves |-> BeingOffered(i)]
TotalMoney == StartMoney * Cardinality(Players)
TotalItems == StartItems * Cardinality(Players)

\* Bids, refunds, rollbacks and payments neither create nor destroy money:
\* once the worker, the owner and the finalizer are idle, the players' money
\* and the bids that open lots hold add up to what there was at the start,
\* whichever calls fail, unless a compensation itself failed or a lot was
\* deleted with a bid the finalizer had not listed.  auction_bet,
\* AuctionBetCompleted and finalize_ready_order share the books.
MoneyConserved ==
    Quiet /\ incidents = {} => SumFunction(Purses) + SumFunction(Escrows) = TotalMoney

\* At every moment each item is in one inventory, in one lot on offer, or in
\* one create request on its way: aucsetnum, auction_order_create and the
\* finalizer lose none and duplicate none until a delete_order fails.
ItemsConserved ==
    "delete" \notin incidents =>
        SumFunction(Inventories) + SumFunction(Offers) + SumFunction(NewOffers) = TotalItems

\* The books balance: neither money nor items are made or lost while the
\* worker, the owner and the finalizer write the same rows and entities.
BooksBalance == MoneyConserved /\ ItemsConserved

\* No lot is handed over twice, whoever is online and whatever is bid while
\* finalize_ready_order works from its snapshot, until a delete_order fails.
HandedOverOnce == "delete" \notin incidents => \A o \in OrderIds : handed[o] <= 1

\* The transaction of finalize_order_offline never closes a lot that holds a
\* bid newer than the listed one.
OfflineSeesLastBid ==
    [][stage = "offline" /\ "overtaken" \in incidents' => "overtaken" \in incidents]_vars

\* A lot that somebody has bid on is eventually closed, although a call may
\* fail in any round: the next round lists it again.
LotsClose ==
    \A o \in OrderIds : (Open(o) /\ orders[o].buyer # None) ~> ~Open(o)

\* A closed lot goes to the last bidder: tasks/auction.rs says that the lot is
\* closed five minutes after the last bid and the item goes to the buyer.
LastBidderWins == "overtaken" \notin incidents
==============================================================================
