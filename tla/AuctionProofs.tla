---------------------------- MODULE AuctionProofs ----------------------------
(***************************************************************************)
(* Proofs about Auction: the types, that no lot is handed over twice while *)
(* delete_order works, and that the offline transaction never overrides a  *)
(* bid it has not seen, for any number of players, lots, bids and failing  *)
(* calls.                                                                  *)
(***************************************************************************)
EXTENDS Auction, FiniteSetTheorems, SequenceTheorems, NaturalsInduction, WellFoundedInduction, TLAPS

\* The identifiers last: a lot on its way to the table has one left.
CreatesFit == created + PendingCreates <= MaxOrders

\* What the finalizer has listed was bid on.
ListedHasBuyer ==
    /\ \A s \in todo : s.order.buyer \in Players
    /\ job # None => job.order.buyer \in Players

TypeInv == TypeOK /\ CreatesFit /\ ListedHasBuyer

\* A lot that is not in the table yet was never handed over.
FutureLots == \A o \in OrderIds : o > created => ~Open(o) /\ handed[o] = 0

\* The lots in the finalizer's hands are different ones, and open: nobody
\* else deletes a lot.
ListedIsOpen ==
    /\ \A s \in todo : Open(s.id)
    /\ \A s, t \in todo : s.id = t.id => s = t
    /\ stage # "idle" => Open(job.id) /\ \A s \in todo : s.id # job.id

\* A lot that was handed over is closed, or about to be.
HandedIsClosed ==
    "delete" \notin incidents =>
        \A o \in OrderIds :
            handed[o] # 0 => handed[o] = 1 /\ (Open(o) => stage = "delete" /\ job.id = o)

LotInv == FutureLots /\ ListedIsOpen /\ HandedIsClosed
------------------------------------------------------------------------------
LEMMA EarnIs ==
    ASSUME NEW w \in Wealth, NEW n \in Int
    PROVE  /\ Earn(w, n) \in Wealth /\ Earn(w, n) # None
           /\ Earn(w, n).money = w.money + n
           /\ Earn(w, n).items = w.items
<1>1. Earn(w, n) \in Wealth
  BY DEF Earn, Wealth
<1>2. Earn(w, n).money = w.money + n /\ Earn(w, n).items = w.items
  BY DEF Earn, Wealth
<1> QED
  BY <1>1, <1>2, NoneAssumption

LEMMA ReceiveIs ==
    ASSUME NEW w \in Wealth, NEW n \in Int
    PROVE  /\ Receive(w, n) \in Wealth /\ Receive(w, n) # None
           /\ Receive(w, n).items = w.items + n
           /\ Receive(w, n).money = w.money
<1>1. Receive(w, n) \in Wealth
  BY DEF Receive, Wealth
<1>2. Receive(w, n).items = w.items + n /\ Receive(w, n).money = w.money
  BY DEF Receive, Wealth
<1> QED
  BY <1>1, <1>2, NoneAssumption

LEMMA RebidIs ==
    ASSUME NEW r \in Orders, NEW cost \in Int, NEW buyer \in Players \cup {None},
           NEW fresh \in BOOLEAN
    PROVE  /\ Rebid(r, cost, buyer, fresh) \in Orders
           /\ Rebid(r, cost, buyer, fresh) # None
           /\ Rebid(r, cost, buyer, fresh).seller = r.seller
           /\ Rebid(r, cost, buyer, fresh).num = r.num
           /\ Rebid(r, cost, buyer, fresh).cost = cost
           /\ Rebid(r, cost, buyer, fresh).buyer = buyer
<1>1. Rebid(r, cost, buyer, fresh) \in Orders
  BY DEF Rebid, Orders
<1>2. /\ Rebid(r, cost, buyer, fresh).seller = r.seller
      /\ Rebid(r, cost, buyer, fresh).num = r.num
      /\ Rebid(r, cost, buyer, fresh).cost = cost
      /\ Rebid(r, cost, buyer, fresh).buyer = buyer
  BY DEF Rebid, Orders
<1> QED
  BY <1>1, <1>2, NoneAssumption

LEMMA RipeIs ==
    ASSUME NEW r \in Orders
    PROVE  /\ [r EXCEPT !.fresh = FALSE] \in Orders
           /\ [r EXCEPT !.fresh = FALSE] # None
           /\ [r EXCEPT !.fresh = FALSE].num = r.num
           /\ [r EXCEPT !.fresh = FALSE].cost = r.cost
           /\ [r EXCEPT !.fresh = FALSE].buyer = r.buyer
<1>1. [r EXCEPT !.fresh = FALSE] \in Orders
  BY DEF Orders
<1>2. /\ [r EXCEPT !.fresh = FALSE].num = r.num
      /\ [r EXCEPT !.fresh = FALSE].cost = r.cost
      /\ [r EXCEPT !.fresh = FALSE].buyer = r.buyer
  BY DEF Orders
<1> QED
  BY <1>1, <1>2, NoneAssumption

\* The price of the next bid is a number.
LEMMA MinBidIsInt ==
    ASSUME NEW r \in Orders
    PROVE  min_bid(r) \in Int
<1>1. r.cost \in Int
  BY DEF Orders
<1> DEFINE n == -r.cost * 101
<1>2. n \in Int
  BY <1>1
<1> HIDE DEF n
<1>3. n \div 100 \in Int
  BY <1>2
<1>4. -(n \div 100) \in Int
  BY <1>3
<1> QED
  BY <1>1, <1>4 DEF min_bid, n

\* The three kinds of command.
PlayerSaves == [kind : {"player"}, player : Players, row : Wealth]
Creates == [kind : {"create"}, player : Players, num : Nat \ {0}, cost : Int]
BetRequests ==
    [kind : {"bet"}, player : Players, id : OrderIds, amount : Int \cup {None}, money : Int]

LEMMA Kinds ==
    ASSUME NEW c \in SaveCommands
    PROVE  /\ c.kind \in {"player", "create", "bet"} /\ c.player \in Players
           /\ c.kind = "player" => c.row \in Wealth
           /\ c.kind = "create" => c.num \in Nat \ {0} /\ c.cost \in Int
           /\ c.kind = "bet" => c.id \in OrderIds /\ c.amount \in Int \cup {None} /\ c.money \in Int
<1>1. c \in PlayerSaves \/ c \in Creates \/ c \in BetRequests
  BY DEF SaveCommands, PlayerSaves, Creates, BetRequests
<1>2. c \in PlayerSaves => c.kind = "player" /\ c.player \in Players /\ c.row \in Wealth
  BY DEF PlayerSaves
<1>3. c \in Creates => c.kind = "create" /\ c.player \in Players /\ c.num \in Nat \ {0}
                            /\ c.cost \in Int
  BY DEF Creates
<1>4. c \in BetRequests => c.kind = "bet" /\ c.player \in Players /\ c.id \in OrderIds
                            /\ c.amount \in Int \cup {None} /\ c.money \in Int
  BY DEF BetRequests
<1> QED
  BY <1>1, <1>2, <1>3, <1>4

LEMMA CommandsAre ==
    /\ \A p \in Players, w \in Wealth :
           [kind |-> "player", player |-> p, row |-> w] \in SaveCommands
    /\ \A p \in Players, n \in Nat \ {0}, c \in Int :
           [kind |-> "create", player |-> p, num |-> n, cost |-> c] \in SaveCommands
    /\ \A p \in Players, o \in OrderIds, a \in Int \cup {None}, m \in Int :
           [kind |-> "bet", player |-> p, id |-> o, amount |-> a, money |-> m] \in SaveCommands
BY DEF SaveCommands
------------------------------------------------------------------------------
Creating(q) == {i \in DOMAIN q : q[i].kind = "create"}

LEMMA CreatingIsFinite ==
    ASSUME NEW q \in Seq(SaveCommands)
    PROVE  IsFiniteSet(Creating(q)) /\ Cardinality(Creating(q)) \in Nat
<1>1. IsFiniteSet(1..Len(q))
  BY FS_Interval
<1>2. Creating(q) \subseteq 1..Len(q)
  BY DEF Creating
<1>3. IsFiniteSet(Creating(q))
  BY <1>1, <1>2, FS_Subset
<1> QED
  BY <1>3, FS_CardinalityType

LEMMA CreatingAppend ==
    ASSUME NEW q \in Seq(SaveCommands), NEW c \in SaveCommands
    PROVE  /\ Append(q, c) \in Seq(SaveCommands)
           /\ Cardinality(Creating(Append(q, c))) =
                  Cardinality(Creating(q)) + (IF c.kind = "create" THEN 1 ELSE 0)
<1> DEFINE n == Len(q) + 1
<1>1. /\ Append(q, c) \in Seq(SaveCommands) /\ DOMAIN Append(q, c) = 1..n
      /\ Append(q, c)[n] = c /\ n \in Nat /\ n \notin DOMAIN q
      /\ \A i \in DOMAIN q : i \in 1..n /\ Append(q, c)[i] = q[i]
      /\ \A i \in 1..n : i = n \/ i \in DOMAIN q
  OBVIOUS
<1>2. n \notin Creating(q)
  BY <1>1 DEF Creating
<1>3. CASE c.kind = "create"
  <2>1. Creating(Append(q, c)) = Creating(q) \cup {n}
    <3> HIDE DEF n
    <3> QED
      BY <1>1, <1>3 DEF Creating
  <2> QED
    BY <1>1, <1>2, <1>3, <2>1, CreatingIsFinite, FS_AddElement
<1>4. CASE c.kind # "create"
  <2>1. Creating(Append(q, c)) = Creating(q)
    <3> HIDE DEF n
    <3> QED
      BY <1>1, <1>4 DEF Creating
  <2> QED
    BY <1>1, <1>4, <2>1, CreatingIsFinite
<1> QED
  BY <1>3, <1>4

LEMMA CreatingTail ==
    ASSUME NEW q \in Seq(SaveCommands), q # <<>>
    PROVE  /\ Head(q) \in SaveCommands
           /\ Tail(q) \in Seq(SaveCommands) /\ Len(Tail(q)) = Len(q) - 1
           /\ Cardinality(Creating(q)) =
                  Cardinality(Creating(Tail(q))) + (IF Head(q).kind = "create" THEN 1 ELSE 0)
<1> DEFINE t == Tail(q)
           rest == Creating(q) \ {1}
<1>1. /\ t \in Seq(SaveCommands) /\ Len(t) = Len(q) - 1 /\ Len(q) \in Nat \ {0}
      /\ DOMAIN q = 1..Len(q) /\ DOMAIN t = 1..Len(t)
      /\ \A i \in DOMAIN t : t[i] = q[i + 1] /\ i + 1 \in DOMAIN q
      /\ q[1] = Head(q) /\ Head(q) \in SaveCommands
  OBVIOUS
<1> HIDE DEF t
<1> DEFINE f == [i \in Creating(t) |-> i + 1]
<1>2. \A i \in Creating(t) : i \in Nat /\ f[i] = i + 1 /\ f[i] \in rest
  BY <1>1 DEF Creating
<1>3. f \in [Creating(t) -> rest]
  BY <1>2
<1>4. \A i, j \in Creating(t) : f[i] = f[j] => i = j
  BY <1>2
<1>5. \A j \in rest : \E i \in Creating(t) : f[i] = j
  <2> SUFFICES ASSUME NEW j \in rest
               PROVE  j - 1 \in Creating(t) /\ f[j - 1] = j
    BY Zenon
  <2>1. j \in 2..Len(q) /\ q[j].kind = "create"
    BY <1>1 DEF Creating
  <2>2. j - 1 \in DOMAIN t /\ (j - 1) + 1 = j
    BY <1>1, <2>1
  <2>3. t[j - 1] = q[j]
    BY <1>1, <2>2
  <2> QED
    BY <2>1, <2>2, <2>3 DEF Creating
<1>6. IsFiniteSet(Creating(t)) /\ Cardinality(Creating(t)) \in Nat
  BY <1>1, CreatingIsFinite
<1>7. IsFiniteSet(Creating(q)) /\ Cardinality(Creating(q)) \in Nat
  BY CreatingIsFinite
<1>8. f \in Bijection(Creating(t), rest)
  <2> HIDE DEF f, rest
  <2> QED
    BY <1>3, <1>4, <1>5 DEF Bijection, Injection, Surjection, IsInjective
<1>9. Cardinality(rest) = Cardinality(Creating(t))
  <2> HIDE DEF f, rest
  <2> QED
    BY <1>6, <1>8, FS_Bijection DEF ExistsBijection
<1>10. CASE Head(q).kind = "create"
  <2>1. 1 \in Creating(q)
    BY <1>1, <1>10 DEF Creating
  <2>2. Cardinality(rest) = Cardinality(Creating(q)) - 1
    BY <1>7, <2>1, FS_RemoveElement
  <2> HIDE DEF rest
  <2> QED
    BY <1>1, <1>6, <1>7, <1>9, <1>10, <2>2 DEF t
<1>11. CASE Head(q).kind # "create"
  <2>1. rest = Creating(q)
    BY <1>1, <1>11 DEF Creating
  <2> HIDE DEF rest
  <2> QED
    BY <1>1, <1>6, <1>7, <1>9, <1>11, <2>1 DEF t
<1> QED
  BY <1>10, <1>11
------------------------------------------------------------------------------
LEMMA TypeInit == Init => TypeInv
<1> SUFFICES ASSUME Init PROVE TypeInv
  OBVIOUS
<1> PICK old \in OldLots, online \in SUBSET Players :
      /\ rows = [p \in Players |-> [money |-> StartMoney - Paid(old, p),
                                    items |-> StartItems - Offered(old, p)]]
      /\ entity = [p \in Players |-> IF p \in online THEN rows[p] ELSE None]
      /\ orders = [o \in OrderIds |-> IF o = 1 THEN old ELSE None]
      /\ created = IF old = None THEN 0 ELSE 1
      /\ dirty = {} /\ bets = 0 /\ failures = 0
      /\ saves = <<>> /\ bet = None /\ completions = <<>>
      /\ todo = {} /\ job = None /\ stage = "idle"
      /\ handed = [o \in OrderIds |-> 0] /\ incidents = {}
  BY DEF Init
<1>1. old \in Orders \cup {None}
  <2> DEFINE L == [seller : Players, num : 1..StartItems, cost : Costs,
                   buyer : Players \cup {None}, fresh : {FALSE}]
  <2>1. 1..StartItems \subseteq Nat \ {0} /\ Costs \subseteq Int
    BY PricesAssumption, WealthAssumption
  <2>2. L \subseteq Orders
    BY <2>1 DEF Orders
  <2>3. old = None \/ old \in L
    BY DEF OldLots
  <2> HIDE DEF L
  <2> QED
    BY <2>2, <2>3
<1>2. \A p \in Players : Paid(old, p) \in Int /\ Offered(old, p) \in Int
  BY <1>1 DEF Paid, Offered, Orders
<1>3. rows \in [Players -> Wealth]
  BY <1>2, WealthAssumption DEF Wealth
<1>4. entity \in [Players -> Wealth \cup {None}]
  BY <1>3
<1>5. orders \in [OrderIds -> Orders \cup {None}]
  BY <1>1
<1>6. created \in 0..MaxOrders
  BY BoundsAssumption
<1>7. PendingCreates = 0
  <2>1. {i \in DOMAIN saves : saves[i].kind = "create"} = {}
    OBVIOUS
  <2> QED
    BY <2>1, FS_EmptySet DEF PendingCreates
<1>8. saves \in Seq(SaveCommands) /\ Len(saves) <= SaveCapacity /\ completions \in Seq(Completions)
  BY BoundsAssumption
<1>9. CreatesFit
  BY <1>6, <1>7 DEF CreatesFit
<1>10. handed \in [OrderIds -> Nat] /\ incidents \subseteq Incidents
  OBVIOUS
<1>11. bets \in 0..MaxBets /\ failures \in 0..MaxFailures
  BY BoundsAssumption
<1> QED
  BY <1>3, <1>4, <1>5, <1>6, <1>8, <1>9, <1>10, <1>11
  DEF TypeInv, TypeOK, ListedHasBuyer, Stages

\* What a database call that may fail does to the count of failures.
LEMMA FailsCounts ==
    ASSUME NEW call, failures \in 0..MaxFailures, Fails(call)
    PROVE  failures' \in 0..MaxFailures
BY BoundsAssumption DEF Fails

LEMMA SetNumType ==
    ASSUME TypeInv, NEW p \in Players, NEW num \in 1..StartItems, NEW cost \in Costs,
           SetNum(p, num, cost)
    PROVE  TypeInv'
<1> DEFINE c == [kind |-> "create", player |-> p, num |-> num, cost |-> cost]
<1>1. entity[p] \in Wealth /\ num \in Int
  BY WealthAssumption DEF SetNum, Online, TypeInv, TypeOK
<1>2. Receive(entity[p], -num) \in Wealth /\ Receive(entity[p], -num) # None
  BY <1>1, ReceiveIs
<1>3. entity' \in [Players -> Wealth \cup {None}] /\ dirty' \subseteq {q \in Players : Online(q)'}
  BY <1>2 DEF SetNum, Online, TypeInv, TypeOK
<1>4. c \in SaveCommands /\ c.kind = "create"
  BY PricesAssumption, WealthAssumption, CommandsAre
<1>5. saves \in Seq(SaveCommands) /\ saves' = Append(saves, c)
  BY DEF SetNum, TypeInv, TypeOK
<1> HIDE DEF c
<1>6. saves' \in Seq(SaveCommands) /\ Len(saves') <= SaveCapacity
  BY <1>4, <1>5, BoundsAssumption DEF SetNum, HasRoom
<1>7. PendingCreates' = PendingCreates + 1 /\ PendingCreates \in Nat
  BY <1>4, <1>5, CreatingAppend, CreatingIsFinite DEF PendingCreates, Creating
<1>8. CreatesFit'
  BY <1>7, BoundsAssumption DEF CreatesFit, SetNum, TypeInv, TypeOK
<1> QED
  BY <1>3, <1>6, <1>8
  DEF TypeInv, TypeOK, ListedHasBuyer, SetNum, finalVars, history

LEMMA AuctionBetType ==
    ASSUME TypeInv, NEW p \in Players, NEW o \in OrderIds, NEW amount \in Amounts \cup {None},
           AuctionBet(p, o, amount)
    PROVE  TypeInv'
<1> DEFINE c == [kind |-> "bet", player |-> p, id |-> o, amount |-> amount,
                 money |-> entity[p].money]
<1>1. entity[p].money \in Int
  BY DEF AuctionBet, Online, TypeInv, TypeOK, Wealth
<1>2. c \in SaveCommands /\ c.kind # "create"
  BY <1>1, PricesAssumption, CommandsAre
<1>3. saves \in Seq(SaveCommands) /\ saves' = Append(saves, c)
  BY DEF AuctionBet, TypeInv, TypeOK
<1> HIDE DEF c
<1>4. saves' \in Seq(SaveCommands) /\ Len(saves') <= SaveCapacity
  BY <1>2, <1>3, BoundsAssumption DEF AuctionBet, HasRoom
<1>5. PendingCreates' = PendingCreates
  BY <1>2, <1>3, CreatingAppend, CreatingIsFinite DEF PendingCreates, Creating
<1>6. bets' \in 0..MaxBets
  BY BoundsAssumption DEF AuctionBet, TypeInv, TypeOK
<1>7. CreatesFit'
  BY <1>5 DEF CreatesFit, AuctionBet, TypeInv
<1> QED
  BY <1>4, <1>6, <1>7
  DEF TypeInv, TypeOK, ListedHasBuyer, AuctionBet, Online, gameVars, finalVars, history

\* A save of the player's entity, by a flush or at the logout.
LEMMA SaveType ==
    ASSUME TypeInv, NEW p \in Players, Online(p), HasRoom, saves' = Save(p)
    PROVE  /\ saves' \in Seq(SaveCommands) /\ Len(saves') <= SaveCapacity
           /\ PendingCreates' = PendingCreates
<1> DEFINE c == [kind |-> "player", player |-> p, row |-> entity[p]]
<1>1. c \in SaveCommands /\ c.kind # "create"
  BY CommandsAre DEF Online, TypeInv, TypeOK
<1>2. saves \in Seq(SaveCommands) /\ saves' = Append(saves, c)
  BY DEF Save, TypeInv, TypeOK
<1> HIDE DEF c
<1>3. saves' \in Seq(SaveCommands) /\ Len(saves') <= SaveCapacity
  BY <1>1, <1>2, BoundsAssumption DEF HasRoom
<1> QED
  BY <1>1, <1>2, <1>3, CreatingAppend, CreatingIsFinite DEF PendingCreates, Creating

LEMMA FlushDirtyType ==
    ASSUME TypeInv, NEW p \in Players, FlushDirty(p)
    PROVE  TypeInv'
<1>1. Online(p)
  BY DEF FlushDirty, TypeInv, TypeOK
<1>2. /\ saves' \in Seq(SaveCommands) /\ Len(saves') <= SaveCapacity
      /\ PendingCreates' = PendingCreates
  BY <1>1, SaveType DEF FlushDirty
<1> QED
  BY <1>2 DEF TypeInv, TypeOK, CreatesFit, ListedHasBuyer, FlushDirty, Online, finalVars, history

LEMMA LogoutType ==
    ASSUME TypeInv, NEW p \in Players, Logout(p)
    PROVE  TypeInv'
<1>1. /\ saves' \in Seq(SaveCommands) /\ Len(saves') <= SaveCapacity
      /\ PendingCreates' = PendingCreates
  BY SaveType DEF Logout
<1> QED
  BY <1>1 DEF TypeInv, TypeOK, CreatesFit, ListedHasBuyer, Logout, Online, finalVars, history

LEMMA LoginType ==
    ASSUME TypeInv, NEW p \in Players, Login(p)
    PROVE  TypeInv'
BY NoneAssumption
DEF TypeInv, TypeOK, CreatesFit, PendingCreates, ListedHasBuyer, Login, Online,
    workerVars, finalVars, history
------------------------------------------------------------------------------
\* The worker takes the command at the head of the queue.
LEMMA TakeCommand ==
    ASSUME TypeInv, saves # <<>>, saves' = Tail(saves)
    PROVE  /\ Request \in SaveCommands /\ saves' \in Seq(SaveCommands)
           /\ Len(saves') <= SaveCapacity /\ PendingCreates' \in Nat
           /\ PendingCreates = PendingCreates' + (IF Request.kind = "create" THEN 1 ELSE 0)
<1>1. saves \in Seq(SaveCommands) /\ Len(saves) <= SaveCapacity
  BY DEF TypeInv, TypeOK
<1>2. /\ Head(saves) \in SaveCommands
      /\ Tail(saves) \in Seq(SaveCommands) /\ Len(Tail(saves)) = Len(saves) - 1
      /\ Cardinality(Creating(saves)) = Cardinality(Creating(Tail(saves)))
                                            + (IF Head(saves).kind = "create" THEN 1 ELSE 0)
  BY <1>1, CreatingTail
<1>3. Cardinality(Creating(Tail(saves))) \in Nat
  BY <1>2, CreatingIsFinite
<1>4. Len(saves') <= SaveCapacity
  BY <1>1, <1>2, BoundsAssumption
<1>5. PendingCreates = Cardinality(Creating(saves))
  BY DEF PendingCreates, Creating
<1>6. PendingCreates' = Cardinality(Creating(Tail(saves)))
  BY DEF PendingCreates, Creating
<1> QED
  BY <1>2, <1>3, <1>4, <1>5, <1>6 DEF Request

LEMMA PersistPlayerType ==
    ASSUME TypeInv, PersistPlayer
    PROVE  TypeInv'
<1>1. saves \in Seq(SaveCommands) /\ saves # <<>> /\ saves' = Tail(saves)
  BY DEF PersistPlayer, TypeInv, TypeOK
<1>2. /\ Request \in SaveCommands /\ saves' \in Seq(SaveCommands) /\ Len(saves') <= SaveCapacity
      /\ PendingCreates' \in Nat /\ PendingCreates' = PendingCreates
  BY <1>1, TakeCommand DEF PersistPlayer
<1>3. Request.player \in Players /\ Request.row \in Wealth
  BY <1>2, Kinds DEF PersistPlayer
<1>4. rows' \in [Players -> Wealth]
  BY <1>3 DEF PersistPlayer, TypeInv, TypeOK
<1> QED
  BY <1>2, <1>4
  DEF TypeInv, TypeOK, CreatesFit, ListedHasBuyer, PersistPlayer, Online, gameVars, finalVars, history

LEMMA PersistCreateType ==
    ASSUME TypeInv, PersistCreate
    PROVE  /\ TypeInv' /\ created + 1 \in OrderIds
           /\ Request \in SaveCommands /\ Request.num \in Nat \ {0}
           /\ orders'[created + 1] \in Orders
           /\ orders'[created + 1].num = Request.num /\ orders'[created + 1].buyer = None
<1> DEFINE lot == [seller |-> Request.player, num |-> Request.num, cost |-> Request.cost,
                   buyer |-> None, fresh |-> FALSE]
<1>1. saves \in Seq(SaveCommands) /\ saves # <<>> /\ saves' = Tail(saves)
  BY DEF PersistCreate, TypeInv, TypeOK
<1>2. /\ Request \in SaveCommands /\ saves' \in Seq(SaveCommands) /\ Len(saves') <= SaveCapacity
      /\ PendingCreates = PendingCreates' + 1 /\ PendingCreates' \in Nat
  BY <1>1, TakeCommand DEF PersistCreate
<1>3. Request.player \in Players /\ Request.num \in Nat \ {0} /\ Request.cost \in Int
  BY <1>2, Kinds DEF PersistCreate
<1>4. lot \in Orders /\ lot.num = Request.num /\ lot.buyer = None
  BY <1>3 DEF Orders
<1>5. created' = created + 1 /\ created + 1 \in OrderIds /\ CreatesFit'
  BY SMTT(30), <1>2, BoundsAssumption DEF PersistCreate, CreatesFit, TypeInv, TypeOK, OrderIds
<1>6. orders' = [orders EXCEPT ![created + 1] = lot]
  BY DEF PersistCreate
<1> HIDE DEF lot
<1>7. orders' \in [OrderIds -> Orders \cup {None}] /\ orders'[created + 1] = lot
  BY <1>4, <1>5, <1>6 DEF TypeInv, TypeOK
<1>8. created' \in 0..MaxOrders
  BY <1>5, BoundsAssumption DEF OrderIds
<1>9. TypeInv'
  BY <1>2, <1>5, <1>7, <1>8
  DEF TypeInv, TypeOK, ListedHasBuyer, PersistCreate, Online, gameVars, finalVars, history
<1> QED
  BY <1>2, <1>3, <1>4, <1>5, <1>7, <1>9

\* Both answers to a bid are completions.
LEMMA AnswersAre ==
    /\ \A p \in Players : Lost(p) \in Completions
    /\ \A b \in Bets : Won(b) \in Completions
<1>1. \A p \in Players : Lost(p) \in Completions
  BY DEF Lost, Completions
<1>2. ASSUME NEW b \in Bets PROVE Won(b) \in Completions
  <2>1. b.player \in Players /\ b.amount \in Int /\ b.seen \in Orders
    BY DEF Bets
  <2>2. b.seen.buyer \in Players \cup {None} /\ b.seen.cost \in Int
    BY <2>1 DEF Orders
  <2> QED
    BY <2>1, <2>2 DEF Won, Completions
<1> QED
  BY <1>1, <1>2

LEMMA AnswerType ==
    ASSUME completions \in Seq(Completions), NEW c \in Completions, Answer(c)
    PROVE  completions' \in Seq(Completions)
BY DEF Answer

\* A step of the worker that takes no command from the queue.
LEMMA WorkerType ==
    ASSUME TypeInv, UNCHANGED <<gameVars, created, bets, saves, finalVars, handed>>,
           rows' \in [Players -> Wealth], orders' \in [OrderIds -> Orders \cup {None}],
           bet' \in Bets \cup {None}, completions' \in Seq(Completions),
           failures' \in 0..MaxFailures, incidents' \subseteq Incidents
    PROVE  TypeInv'
BY DEF TypeInv, TypeOK, CreatesFit, PendingCreates, ListedHasBuyer, Online, gameVars, finalVars

LEMMA ReadOrderType ==
    ASSUME TypeInv, ReadOrder
    PROVE  TypeInv'
<1>1. saves \in Seq(SaveCommands) /\ saves # <<>> /\ saves' = Tail(saves)
  BY DEF ReadOrder, TypeInv, TypeOK
<1>2. /\ Request \in SaveCommands /\ saves' \in Seq(SaveCommands) /\ Len(saves') <= SaveCapacity
      /\ PendingCreates' \in Nat /\ PendingCreates' = PendingCreates
  BY <1>1, TakeCommand DEF ReadOrder
<1>3. /\ Request.player \in Players /\ Request.id \in OrderIds
      /\ Request.amount \in Int \cup {None} /\ Request.money \in Int
  BY <1>2, Kinds DEF ReadOrder
<1>4. bet' \in Bets \cup {None} /\ completions' \in Seq(Completions)
  <2>1. CASE Open(Request.id) /\ Acceptable(Request, orders[Request.id])
    <3> DEFINE seen == orders[Request.id]
               amount == AmountOf(Request, seen)
    <3>1. seen \in Orders
      BY <1>3, <2>1 DEF Open, TypeInv, TypeOK
    <3>2. amount \in Int
      BY <1>3, <3>1, MinBidIsInt DEF AmountOf
    <3>3. bet' = [step |-> "cas", player |-> Request.player, id |-> Request.id,
                  amount |-> amount, seen |-> seen] /\ completions' = completions
      BY <2>1 DEF ReadOrder
    <3> HIDE DEF seen, amount
    <3>4. bet' \in Bets
      BY <1>3, <3>1, <3>2, <3>3 DEF Bets
    <3> QED
      BY <3>3, <3>4 DEF TypeInv, TypeOK
  <2>2. CASE ~(Open(Request.id) /\ Acceptable(Request, orders[Request.id]))
    <3>1. bet' = bet /\ Answer(Lost(Request.player))
      BY <2>2 DEF ReadOrder
    <3> QED
      BY <1>3, <3>1, AnswersAre, AnswerType DEF TypeInv, TypeOK
  <2> QED
    BY <2>1, <2>2
<1> QED
  BY <1>2, <1>4
  DEF TypeInv, TypeOK, CreatesFit, ListedHasBuyer, ReadOrder, Online, gameVars, finalVars, history

LEMMA BetIs ==
    ASSUME TypeInv, bet # None
    PROVE  /\ bet \in Bets /\ bet.player \in Players /\ bet.id \in OrderIds /\ bet.amount \in Int
           /\ bet.seen \in Orders /\ bet.seen.buyer \in Players \cup {None}
           /\ bet.seen.cost \in Int /\ bet.seen.fresh \in BOOLEAN
<1>1. bet \in Bets
  BY DEF TypeInv, TypeOK
<1>2. bet.player \in Players /\ bet.id \in OrderIds /\ bet.amount \in Int /\ bet.seen \in Orders
  BY <1>1 DEF Bets
<1>3. bet.seen.buyer \in Players \cup {None} /\ bet.seen.cost \in Int /\ bet.seen.fresh \in BOOLEAN
  BY <1>2 DEF Orders
<1> QED
  BY <1>1, <1>2, <1>3

\* The worker writes a bid into a lot that is open.
LEMMA BidType ==
    ASSUME TypeInv, NEW o \in OrderIds, Open(o), NEW cost \in Int,
           NEW buyer \in Players \cup {None}, NEW fresh \in BOOLEAN,
           orders' = [orders EXCEPT ![o] = Rebid(@, cost, buyer, fresh)]
    PROVE  orders' \in [OrderIds -> Orders \cup {None}] /\ \A x \in OrderIds : Open(x)' <=> Open(x)
<1>1. orders[o] \in Orders
  BY DEF Open, TypeInv, TypeOK
<1>2. Rebid(orders[o], cost, buyer, fresh) \in Orders /\ Rebid(orders[o], cost, buyer, fresh) # None
  BY <1>1, RebidIs
<1> QED
  BY <1>2 DEF Open, TypeInv, TypeOK

LEMMA StepsAre ==
    ASSUME NEW b \in Bets, NEW step \in {"cas", "refund", "rollback"}
    PROVE  [b EXCEPT !.step = step] \in Bets
BY DEF Bets

LEMMA CasBetType ==
    ASSUME TypeInv, CasBet
    PROVE  TypeInv' /\ \A x \in OrderIds : Open(x)' <=> Open(x)
<1>1. bet # None /\ UNCHANGED <<gameVars, rows, created, bets, saves, finalVars, failures, history>>
  BY DEF CasBet
<1>2. CASE Holds(bet.id, bet.seen.buyer, bet.seen.cost)
  <2>1. /\ orders' = [orders EXCEPT ![bet.id] = Rebid(@, bet.amount, bet.player, TRUE)]
        /\ \/ bet' = [bet EXCEPT !.step = "refund"] /\ completions' = completions
           \/ bet' = None /\ Answer(Won(bet))
    BY <1>2 DEF CasBet
  <2>2. orders' \in [OrderIds -> Orders \cup {None}] /\ \A x \in OrderIds : Open(x)' <=> Open(x)
    BY <1>1, <1>2, <2>1, BetIs, BidType DEF Holds
  <2>3. bet' \in Bets \cup {None} /\ completions' \in Seq(Completions)
    BY <1>1, <2>1, BetIs, StepsAre, AnswersAre, AnswerType DEF TypeInv, TypeOK
  <2> QED
    BY <1>1, <2>2, <2>3, WorkerType DEF history, TypeInv, TypeOK
<1>3. CASE ~Holds(bet.id, bet.seen.buyer, bet.seen.cost)
  <2>1. orders' = orders /\ bet' = None /\ Answer(Lost(bet.player))
    BY <1>3 DEF CasBet
  <2>2. bet' \in Bets \cup {None} /\ completions' \in Seq(Completions)
    BY <1>1, <2>1, BetIs, AnswersAre, AnswerType DEF TypeInv, TypeOK
  <2> QED
    BY <1>1, <2>1, <2>2, WorkerType DEF history, TypeInv, TypeOK, Open
<1> QED
  BY <1>2, <1>3

LEMMA RefundPreviousType ==
    ASSUME TypeInv, RefundPrevious
    PROVE  TypeInv'
<1>1. /\ bet # None /\ bet' = None /\ Answer(Won(bet))
      /\ UNCHANGED <<gameVars, orders, created, bets, saves, finalVars, failures, history>>
      /\ rows' = [rows EXCEPT ![bet.seen.buyer] = Earn(@, bet.seen.cost)]
  BY DEF RefundPrevious
<1>2. \A p \in Players : Earn(rows[p], bet.seen.cost) \in Wealth
  BY <1>1, BetIs, EarnIs DEF TypeInv, TypeOK
<1>3. rows' \in [Players -> Wealth]
  BY <1>1, <1>2 DEF TypeInv, TypeOK
<1>4. completions' \in Seq(Completions)
  BY <1>1, BetIs, AnswersAre, AnswerType DEF TypeInv, TypeOK
<1> QED
  BY <1>1, <1>3, <1>4, WorkerType DEF history, TypeInv, TypeOK

LEMMA RefundFailsType ==
    ASSUME TypeInv, RefundFails
    PROVE  TypeInv'
<1>1. /\ bet # None /\ bet' = [bet EXCEPT !.step = "rollback"] /\ Fails("refund")
      /\ UNCHANGED <<gameVars, rows, orders, created, bets, saves, completions, finalVars, history>>
  BY DEF RefundFails
<1>2. bet' \in Bets
  BY <1>1, BetIs, StepsAre
<1>3. failures' \in 0..MaxFailures
  BY <1>1, FailsCounts DEF TypeInv, TypeOK
<1> QED
  BY <1>1, <1>2, <1>3, WorkerType DEF history, TypeInv, TypeOK

LEMMA RollbackBetType ==
    ASSUME TypeInv, RollbackBet
    PROVE  TypeInv' /\ \A x \in OrderIds : Open(x)' <=> Open(x)
<1>1. /\ bet # None /\ bet' = None /\ Answer(Lost(bet.player))
      /\ UNCHANGED <<gameVars, rows, created, bets, saves, finalVars, handed>>
  BY DEF RollbackBet
<1>2. completions' \in Seq(Completions)
  BY <1>1, BetIs, AnswersAre, AnswerType DEF TypeInv, TypeOK
<1>3. /\ failures' \in 0..MaxFailures /\ incidents' \subseteq Incidents
      /\ orders' \in [OrderIds -> Orders \cup {None}] /\ \A x \in OrderIds : Open(x)' <=> Open(x)
  <2>1. CASE /\ Holds(bet.id, bet.player, bet.amount)
             /\ orders' = [orders EXCEPT ![bet.id] =
                    Rebid(@, bet.seen.cost, bet.seen.buyer, bet.seen.fresh)]
             /\ UNCHANGED <<failures, incidents>>
    BY <1>1, <2>1, BetIs, BidType DEF Holds, TypeInv, TypeOK
  <2>2. CASE UNCHANGED <<orders, failures, incidents>>
    BY <2>2 DEF Open, TypeInv, TypeOK
  <2>3. CASE Fails("rollback") /\ Record("rollback") /\ UNCHANGED orders
    BY <2>3, FailsCounts DEF Open, Record, Incidents, TypeInv, TypeOK
  <2> QED
    BY <2>1, <2>2, <2>3 DEF RollbackBet
<1> QED
  BY <1>1, <1>2, <1>3, WorkerType DEF TypeInv, TypeOK
------------------------------------------------------------------------------
\* The part of the types that payments touch.
PursesOK ==
    /\ entity \in [Players -> Wealth \cup {None}] /\ rows \in [Players -> Wealth]
    /\ dirty \subseteq {p \in Players : Online(p)}

LEMMA PayIs ==
    ASSUME NEW e \in [Players -> Wealth \cup {None}], NEW p \in Players, NEW n \in Int
    PROVE  /\ Pay(e, p, n) \in [Players -> Wealth \cup {None}]
           /\ \A q \in Players : Pay(e, p, n)[q] # None <=> e[q] # None
           /\ \A q \in Players : q # p => Pay(e, p, n)[q] = e[q]
           /\ e[p] # None => Pay(e, p, n)[p] = Earn(e[p], n)
<1>1. e[p] # None => Earn(e[p], n) \in Wealth /\ Earn(e[p], n) # None
  BY EarnIs
<1> QED
  BY <1>1 DEF Pay

LEMMA CreditMoneyType ==
    ASSUME PursesOK, NEW p \in Players, NEW n \in Int, CreditMoney(p, n)
    PROVE  PursesOK' /\ \A q \in Players : Online(q)' <=> Online(q)
<1>1. CASE Online(p)
  <2>1. /\ entity' = Pay(entity, p, n) /\ dirty' = dirty \cup {p} /\ rows' = rows
    BY <1>1 DEF CreditMoney
  <2>2. /\ entity' \in [Players -> Wealth \cup {None}]
        /\ \A q \in Players : Online(q)' <=> Online(q)
    BY <2>1, PayIs DEF PursesOK, Online
  <2> QED
    BY <1>1, <2>1, <2>2 DEF PursesOK, Online
<1>2. CASE ~Online(p)
  <2>1. Earn(rows[p], n) \in Wealth
    BY EarnIs DEF PursesOK
  <2> QED
    BY <1>2, <2>1 DEF CreditMoney, PursesOK, Online, gameVars
<1> QED
  BY <1>1, <1>2

LEMMA CreditItemsType ==
    ASSUME PursesOK, NEW p \in Players, NEW n \in Int, CreditItems(p, n)
    PROVE  PursesOK' /\ \A q \in Players : Online(q)' <=> Online(q)
<1>1. CASE Online(p)
  <2>1. Receive(entity[p], n) \in Wealth /\ Receive(entity[p], n) # None
    BY <1>1, ReceiveIs DEF PursesOK, Online
  <2> QED
    BY <1>1, <2>1 DEF CreditItems, PursesOK, Online
<1>2. CASE ~Online(p)
  <2>1. Receive(rows[p], n) \in Wealth
    BY ReceiveIs DEF PursesOK
  <2> QED
    BY <1>2, <2>1 DEF CreditItems, PursesOK, Online, gameVars
<1> QED
  BY <1>1, <1>2

LEMMA ApplyCompletionType ==
    ASSUME TypeInv, ApplyCompletion
    PROVE  TypeInv' /\ \A q \in Players : Online(q)' <=> Online(q)
<1> DEFINE c == Head(completions)
           charged == Pay(entity, c.player, -c.amount)
<1>1. /\ completions # <<>> /\ completions' = Tail(completions)
      /\ UNCHANGED <<rows, orders, created, bets, saves, bet, finalVars, failures, history>>
      /\ completions \in Seq(Completions)
      /\ entity \in [Players -> Wealth \cup {None}]
      /\ dirty \subseteq {p \in Players : Online(p)}
  BY DEF ApplyCompletion, TypeInv, TypeOK
<1>2. c \in Completions /\ completions' \in Seq(Completions)
  BY <1>1
<1>3. /\ c.player \in Players /\ c.amount \in Int /\ c.previous \in Players \cup {None}
      /\ c.refund \in Int
  BY <1>2 DEF Completions
<1>4. PursesOK' /\ \A q \in Players : Online(q)' <=> Online(q)
  <2>1. CASE c.won
    <3>1. /\ entity' = IF c.previous # None THEN Pay(charged, c.previous, c.refund) ELSE charged
          /\ dirty' = dirty \cup {p \in {c.player, c.previous} \ {None} : Online(p)}
      BY <2>1 DEF ApplyCompletion
    <3> HIDE DEF c
    <3>2. /\ charged \in [Players -> Wealth \cup {None}]
          /\ \A q \in Players : charged[q] # None <=> entity[q] # None
      BY <1>1, <1>3, PayIs
    <3> HIDE DEF charged
    <3>3. /\ entity' \in [Players -> Wealth \cup {None}]
          /\ \A q \in Players : entity'[q] # None <=> entity[q] # None
      BY <1>3, <3>1, <3>2, PayIs
    <3> QED
      BY <1>1, <1>3, <3>1, <3>3 DEF PursesOK, Online, TypeInv, TypeOK
  <2>2. CASE ~c.won
    BY <1>1, <2>2 DEF ApplyCompletion, PursesOK, Online, gameVars, TypeInv, TypeOK
  <2> QED
    BY <2>1, <2>2
<1> QED
  BY <1>1, <1>2, <1>4
  DEF PursesOK, TypeInv, TypeOK, CreatesFit, PendingCreates, ListedHasBuyer, finalVars, history

LEMMA RipenType ==
    ASSUME TypeInv, NEW o \in OrderIds, Ripen(o)
    PROVE  TypeInv' /\ \A x \in OrderIds : Open(x)' <=> Open(x)
<1>1. orders[o] \in Orders
  BY DEF Ripen, Open, TypeInv, TypeOK
<1>2. [orders[o] EXCEPT !.fresh = FALSE] \in Orders /\ [orders[o] EXCEPT !.fresh = FALSE] # None
  BY <1>1, RipeIs
<1>3. /\ orders' \in [OrderIds -> Orders \cup {None}]
      /\ \A x \in OrderIds : Open(x)' <=> Open(x)
  BY <1>2 DEF Ripen, Open, TypeInv, TypeOK
<1> QED
  BY <1>3
  DEF Ripen, TypeInv, TypeOK, CreatesFit, PendingCreates, ListedHasBuyer, Online,
      gameVars, workerVars, finalVars, history

LEMMA SnapshotsAre ==
    ASSUME NEW s \in Snapshots
    PROVE  /\ s # None /\ s.id \in OrderIds /\ s.order \in Orders
           /\ s.order.seller \in Players /\ s.order.num \in Nat \ {0} /\ s.order.cost \in Int
<1>1. s.id \in OrderIds /\ s.order \in Orders
  BY DEF Snapshots
<1>2. s.order.seller \in Players /\ s.order.num \in Nat \ {0} /\ s.order.cost \in Int
  BY <1>1 DEF Orders
<1> QED
  BY <1>1, <1>2, NoneAssumption

LEMMA JobIs ==
    ASSUME TypeInv, stage # "idle"
    PROVE  /\ job \in Snapshots /\ job # None /\ job.id \in OrderIds /\ job.order \in Orders
           /\ job.order.seller \in Players /\ job.order.num \in Nat \ {0} /\ job.order.cost \in Int
           /\ job.order.buyer \in Players
<1>1. job \in Snapshots /\ job # None /\ job.order.buyer \in Players
  BY DEF TypeInv, TypeOK, ListedHasBuyer
<1> QED
  BY <1>1, SnapshotsAre

LEMMA ListReadyType ==
    ASSUME TypeInv, ListReady
    PROVE  /\ TypeInv'
           /\ \A s \in todo' : s.id \in OrderIds /\ Open(s.id) /\ s.order = orders[s.id]
<1>1. ASSUME NEW s \in list_ready_orders
      PROVE  /\ s \in Snapshots /\ s.order.buyer \in Players
             /\ s.id \in OrderIds /\ Open(s.id) /\ s.order = orders[s.id]
  <2> PICK o \in OrderIds : /\ Open(o) /\ orders[o].buyer # None
                            /\ s = [id |-> o, order |-> orders[o]]
    BY DEF list_ready_orders
  <2>1. orders[o] \in Orders
    BY DEF Open, TypeInv, TypeOK
  <2>2. orders[o].buyer \in Players
    BY <2>1 DEF Orders
  <2> QED
    BY <2>1, <2>2 DEF Snapshots
<1> QED
  BY <1>1
  DEF ListReady, TypeInv, TypeOK, CreatesFit, PendingCreates, ListedHasBuyer, Online,
      gameVars, workerVars, history

LEMMA BeginFinalizeType ==
    ASSUME TypeInv, NEW s \in todo, BeginFinalize(s)
    PROVE  TypeInv'
<1>1. s \in Snapshots /\ s # None
  BY SnapshotsAre DEF TypeInv, TypeOK
<1>2. todo' \subseteq Snapshots /\ job' \in Snapshots /\ job' # None /\ stage' \in {"seller", "offline"}
  BY <1>1 DEF BeginFinalize, TypeInv, TypeOK
<1>3. ListedHasBuyer'
  BY DEF BeginFinalize, ListedHasBuyer, TypeInv
<1> QED
  BY <1>2, <1>3
  DEF BeginFinalize, TypeInv, TypeOK, CreatesFit, PendingCreates, Online, Stages,
      gameVars, workerVars, history

\* A step of the finalizer that goes on with the same lot, or is done with it.
LEMMA FinalizerType ==
    ASSUME TypeInv, UNCHANGED <<created, bets, workerVars, todo>>, PursesOK',
           \/ job' = None /\ stage' = "idle"
           \/ job' = job /\ job # None /\ stage' \in Stages \ {"idle"},
           orders' \in [OrderIds -> Orders \cup {None}], failures' \in 0..MaxFailures,
           handed' \in [OrderIds -> Nat], incidents' \subseteq Incidents
    PROVE  TypeInv'
<1>1. job' \in Snapshots \cup {None} /\ stage' \in Stages /\ (stage' = "idle" <=> job' = None)
  BY DEF TypeInv, TypeOK, Stages
<1>2. ListedHasBuyer'
  BY DEF ListedHasBuyer, TypeInv
<1> QED
  BY <1>1, <1>2 DEF PursesOK, TypeInv, TypeOK, CreatesFit, PendingCreates, workerVars

LEMMA RemoveType ==
    ASSUME TypeInv, NEW s \in Snapshots, Remove(s)
    PROVE  /\ orders' \in [OrderIds -> Orders \cup {None}] /\ incidents' \subseteq Incidents
           /\ incidents' = incidents \/ incidents' = incidents \cup {"overtaken"}
           /\ orders'[s.id] = None /\ \A x \in OrderIds : x # s.id => (Open(x)' <=> Open(x))
BY SnapshotsAre DEF Remove, Record, Incidents, Open, TypeInv, TypeOK

LEMMA HandOverType ==
    ASSUME TypeInv, NEW o \in OrderIds, HandOver(o)
    PROVE  /\ handed' \in [OrderIds -> Nat] /\ handed'[o] = handed[o] + 1
           /\ \A x \in OrderIds : x # o => handed'[x] = handed[x]
BY DEF HandOver, TypeInv, TypeOK

LEMMA CreditedOfflineType ==
    ASSUME TypeInv, NEW s \in Snapshots, s.order.buyer \in Players
    PROVE  CreditedOffline(s) \in [Players -> Wealth]
<1> DEFINE half == [rows EXCEPT ![s.order.buyer] = Receive(@, s.order.num)]
<1>1. s.order.seller \in Players /\ s.order.num \in Int /\ s.order.cost \in Int
  BY SnapshotsAre
<1>2. Receive(rows[s.order.buyer], s.order.num) \in Wealth
  BY <1>1, ReceiveIs DEF TypeInv, TypeOK
<1>3. half \in [Players -> Wealth]
  BY <1>2 DEF TypeInv, TypeOK
<1> HIDE DEF half
<1>4. Earn(half[s.order.seller], s.order.cost) \in Wealth
  BY <1>1, <1>3, EarnIs
<1>5. [half EXCEPT ![s.order.seller] = Earn(@, s.order.cost)] \in [Players -> Wealth]
  BY <1>3, <1>4
<1> QED
  BY <1>5 DEF CreditedOffline, half

LEMMA FinalizeOfflineType ==
    ASSUME TypeInv, FinalizeOffline
    PROVE  TypeInv'
<1>1. /\ job \in Snapshots /\ job.id \in OrderIds /\ job.order.buyer \in Players
      /\ UNCHANGED <<gameVars, created, bets, workerVars, todo>> /\ job' = None /\ stage' = "idle"
  BY JobIs DEF FinalizeOffline, Finish
<1>2. CASE /\ rows' = CreditedOffline(job) /\ Remove(job) /\ HandOver(job.id)
           /\ UNCHANGED failures
  <2>1. rows' \in [Players -> Wealth]
    BY <1>1, <1>2, CreditedOfflineType
  <2>2. PursesOK'
    BY <1>1, <2>1 DEF PursesOK, Online, gameVars, TypeInv, TypeOK
  <2> QED
    BY <1>1, <1>2, <2>2, RemoveType, HandOverType, FinalizerType DEF TypeInv, TypeOK
<1>3. CASE UNCHANGED <<rows, orders, history>> /\ failures' \in 0..MaxFailures
  <2>1. PursesOK'
    BY <1>1, <1>3 DEF PursesOK, Online, gameVars, TypeInv, TypeOK
  <2> QED
    BY <1>1, <1>3, <2>1, FinalizerType DEF history, TypeInv, TypeOK
<1>4. Fails("offline") => failures' \in 0..MaxFailures
  BY FailsCounts DEF TypeInv, TypeOK
<1> QED
  BY <1>2, <1>3, <1>4 DEF FinalizeOffline, TypeInv, TypeOK

LEMMA CreditFailsType ==
    ASSUME TypeInv, NEW call, NEW p, CreditFails(call, p)
    PROVE  PursesOK' /\ failures' \in 0..MaxFailures
BY FailsCounts DEF CreditFails, PursesOK, Online, gameVars, TypeInv, TypeOK

LEMMA CreditSellerType ==
    ASSUME TypeInv, CreditSeller
    PROVE  TypeInv'
<1>1. /\ PursesOK /\ job # None /\ job.order.seller \in Players /\ job.order.cost \in Int
      /\ UNCHANGED <<orders, created, bets, workerVars, history>>
  BY JobIs DEF CreditSeller, PursesOK, TypeInv, TypeOK
<1>2. CASE CreditMoney(job.order.seller, job.order.cost)
              /\ stage' = "buyer" /\ UNCHANGED <<todo, job, failures>>
  <2>1. PursesOK'
    BY <1>1, <1>2, CreditMoneyType
  <2> QED
    BY <1>1, <1>2, <2>1, FinalizerType DEF Stages, history, TypeInv, TypeOK
<1>3. CASE CreditFails("seller", job.order.seller) /\ Finish
  BY <1>1, <1>3, CreditFailsType, FinalizerType DEF Finish, history, TypeInv, TypeOK
<1> QED
  BY <1>2, <1>3 DEF CreditSeller

LEMMA CreditBuyerType ==
    ASSUME TypeInv, CreditBuyer
    PROVE  TypeInv'
<1>1. /\ PursesOK /\ job # None /\ job.order.buyer \in Players /\ job.order.num \in Int
      /\ job.id \in OrderIds
      /\ UNCHANGED <<orders, created, bets, workerVars, todo, job, incidents>>
  BY JobIs DEF CreditBuyer, PursesOK, TypeInv, TypeOK
<1>2. CASE /\ CreditItems(job.order.buyer, job.order.num)
           /\ HandOver(job.id) /\ stage' = "delete" /\ UNCHANGED failures
  <2>1. PursesOK'
    BY <1>1, <1>2, CreditItemsType
  <2>2. handed' \in [OrderIds -> Nat]
    BY <1>1, <1>2, HandOverType
  <2> QED
    BY <1>1, <1>2, <2>1, <2>2, FinalizerType DEF Stages, TypeInv, TypeOK
<1>3. CASE /\ CreditFails("buyer", job.order.buyer)
           /\ stage' = "revoke" /\ UNCHANGED handed
  BY <1>1, <1>3, CreditFailsType, FinalizerType DEF Stages, TypeInv, TypeOK
<1> QED
  BY <1>2, <1>3 DEF CreditBuyer

LEMMA RevokeSellerType ==
    ASSUME TypeInv, RevokeSeller
    PROVE  TypeInv'
<1>1. /\ PursesOK /\ job.order.seller \in Players /\ -job.order.cost \in Int
      /\ UNCHANGED <<orders, created, bets, workerVars, handed, todo>>
      /\ job' = None /\ stage' = "idle"
  BY JobIs DEF RevokeSeller, Finish, PursesOK, TypeInv, TypeOK
<1>2. CASE CreditMoney(job.order.seller, -job.order.cost) /\ UNCHANGED <<failures, incidents>>
  <2>1. PursesOK'
    BY <1>1, <1>2, CreditMoneyType
  <2> QED
    BY <1>1, <1>2, <2>1, FinalizerType DEF TypeInv, TypeOK
<1>3. CASE CreditFails("revoke", job.order.seller) /\ Record("revoke")
  BY <1>1, <1>3, CreditFailsType, FinalizerType DEF Record, Incidents, TypeInv, TypeOK
<1> QED
  BY <1>2, <1>3 DEF RevokeSeller

LEMMA DeleteOrderType ==
    ASSUME TypeInv, DeleteOrder
    PROVE  TypeInv'
<1>1. /\ job \in Snapshots
      /\ UNCHANGED <<gameVars, rows, created, bets, workerVars, handed, todo>>
      /\ job' = None /\ stage' = "idle"
  BY JobIs DEF DeleteOrder, Finish
<1>2. PursesOK'
  BY <1>1 DEF PursesOK, Online, gameVars, TypeInv, TypeOK
<1>3. CASE Remove(job) /\ UNCHANGED failures
  BY <1>1, <1>2, <1>3, RemoveType, FinalizerType DEF TypeInv, TypeOK
<1>4. CASE Fails("delete") /\ Record("delete") /\ UNCHANGED orders
  BY <1>1, <1>2, <1>4, FailsCounts, FinalizerType DEF Record, Incidents, TypeInv, TypeOK
<1> QED
  BY <1>3, <1>4 DEF DeleteOrder
------------------------------------------------------------------------------
LEMMA TypeStep == TypeInv /\ [Next]_vars => TypeInv'
<1> SUFFICES ASSUME TypeInv, [Next]_vars PROVE TypeInv'
  OBVIOUS
<1>1. CASE PlayerStep
  <2>1. ASSUME NEW p \in Players, NEW num \in 1..StartItems, NEW cost \in Costs,
               SetNum(p, num, cost)
        PROVE  TypeInv'
    BY <2>1, SetNumType
  <2>2. ASSUME NEW p \in Players, NEW o \in OrderIds, NEW amount \in Amounts \cup {None},
               AuctionBet(p, o, amount)
        PROVE  TypeInv'
    BY <2>2, AuctionBetType
  <2>3. ASSUME NEW p \in Players, Logout(p) \/ Login(p)
        PROVE  TypeInv'
    BY <2>3, LogoutType, LoginType
  <2> QED
    BY <1>1, <2>1, <2>2, <2>3 DEF PlayerStep
<1>2. CASE WorkerStep
  BY <1>2, PersistPlayerType, PersistCreateType, ReadOrderType, CasBetType,
     RefundPreviousType, RefundFailsType, RollbackBetType DEF WorkerStep
<1>3. CASE FinalizeStep
  BY <1>3, ListReadyType, FinalizeOfflineType, CreditSellerType, CreditBuyerType,
     RevokeSellerType, DeleteOrderType, BeginFinalizeType DEF FinalizeStep
<1>4. CASE ApplyCompletion
  BY <1>4, ApplyCompletionType
<1>5. ASSUME NEW p \in Players, FlushDirty(p)
      PROVE  TypeInv'
  BY <1>5, FlushDirtyType
<1>6. ASSUME NEW o \in OrderIds, Ripen(o)
      PROVE  TypeInv'
  BY <1>6, RipenType
<1>7. CASE UNCHANGED vars
  BY <1>7
  DEF TypeInv, TypeOK, CreatesFit, PendingCreates, ListedHasBuyer, Online, vars, gameVars,
      workerVars, finalVars, history
<1> QED
  BY <1>1, <1>2, <1>3, <1>4, <1>5, <1>6, <1>7 DEF Next

THEOREM TypeAlways == Spec => []TypeInv
BY TypeInit, TypeStep, PTL DEF Spec

\* TypeOK holds in every reachable state: money and items stay numbers, a
\* player is marked dirty only while it has an entity (credit_money and
\* AuctionBetCompleted look before they mark), the finalizer has a lot in hand
\* exactly while it works on one, and the lots created never exceed the bound.
THEOREM TypeCorrect == Spec => []TypeOK
<1>1. TypeInv => TypeOK
  BY DEF TypeInv
<1> QED
  BY <1>1, TypeAlways, PTL
------------------------------------------------------------------------------
LEMMA LotInit == Init => LotInv
<1> SUFFICES ASSUME Init PROVE LotInv
  OBVIOUS
<1> PICK old \in OldLots, online \in SUBSET Players :
      /\ orders = [o \in OrderIds |-> IF o = 1 THEN old ELSE None]
      /\ created = IF old = None THEN 0 ELSE 1
      /\ todo = {} /\ stage = "idle"
      /\ handed = [o \in OrderIds |-> 0] /\ incidents = {}
  BY DEF Init
<1>1. FutureLots
  BY BoundsAssumption DEF FutureLots, Open, OrderIds
<1> QED
  BY <1>1 DEF LotInv, ListedIsOpen, HandedIsClosed

\* A step that leaves the finalizer alone and neither opens nor closes a lot.
LEMMA LotsKept ==
    ASSUME TypeInv, LotInv, UNCHANGED <<created, finalVars, handed>>,
           \A x \in OrderIds : Open(x)' <=> Open(x), incidents \subseteq incidents'
    PROVE  LotInv'
<1>1. FutureLots'
  BY DEF LotInv, FutureLots
<1>2. ListedIsOpen'
  <2>1. /\ \A s \in todo : s.id \in OrderIds
        /\ stage # "idle" => job.id \in OrderIds
    BY SnapshotsAre, JobIs DEF TypeInv, TypeOK
  <2> QED
    BY <2>1 DEF LotInv, ListedIsOpen, finalVars
<1>3. HandedIsClosed'
  BY DEF LotInv, HandedIsClosed, finalVars
<1> QED
  BY <1>1, <1>2, <1>3 DEF LotInv

\* The finalizer goes on with its lot, or gives it up.
LEMMA LotsInHand ==
    ASSUME TypeInv, LotInv, UNCHANGED <<created, todo, handed>>,
           \A x \in OrderIds : Open(x)' <=> Open(x), incidents \subseteq incidents',
           stage \notin {"idle", "delete"} \/ "delete" \in incidents',
           stage' = "idle" \/ (job' = job /\ stage # "idle")
    PROVE  LotInv'
<1>1. FutureLots'
  BY DEF LotInv, FutureLots
<1>2. ListedIsOpen'
  <2>1. /\ \A s \in todo : s.id \in OrderIds
        /\ stage # "idle" => job.id \in OrderIds
    BY SnapshotsAre, JobIs DEF TypeInv, TypeOK
  <2> QED
    BY <2>1 DEF LotInv, ListedIsOpen
<1>3. HandedIsClosed'
  BY DEF LotInv, HandedIsClosed
<1> QED
  BY <1>1, <1>2, <1>3 DEF LotInv

\* The finalizer closes the lot it has in hand.
LEMMA LotsRemoved ==
    ASSUME TypeInv, LotInv, UNCHANGED <<created, todo>>, stage # "idle", stage' = "idle",
           Remove(job),
           \/ stage = "delete" /\ UNCHANGED handed
           \/ stage # "delete" /\ HandOver(job.id)
    PROVE  LotInv'
<1>1. /\ job \in Snapshots /\ job.id \in OrderIds
      /\ \A s \in todo : s.id \in OrderIds /\ s.id # job.id /\ Open(s.id)
      /\ Open(job.id)
  BY JobIs, SnapshotsAre DEF LotInv, ListedIsOpen, TypeInv, TypeOK
<1>2. /\ orders'[job.id] = None /\ \A x \in OrderIds : x # job.id => (Open(x)' <=> Open(x))
      /\ "delete" \in incidents' <=> "delete" \in incidents
  BY <1>1, RemoveType
<1>3. /\ \A x \in OrderIds : x # job.id => handed'[x] = handed[x]
      /\ handed'[job.id] = handed[job.id] + (IF stage = "delete" THEN 0 ELSE 1)
      /\ handed[job.id] \in Nat
  BY <1>1, HandOverType DEF TypeInv, TypeOK
<1>4. FutureLots'
  BY <1>1, <1>2, <1>3 DEF LotInv, FutureLots, Open
<1>5. ListedIsOpen'
  BY <1>1, <1>2 DEF LotInv, ListedIsOpen
<1>6. HandedIsClosed'
  BY <1>1, <1>2, <1>3 DEF LotInv, HandedIsClosed, Open
<1> QED
  BY <1>4, <1>5, <1>6 DEF LotInv

LEMMA LotStep == TypeInv /\ LotInv /\ [Next]_vars => LotInv'
<1> SUFFICES ASSUME TypeInv, LotInv, [Next]_vars PROVE LotInv'
  OBVIOUS
<1>1. CASE PlayerStep
  <2>1. UNCHANGED <<created, finalVars, handed, orders, incidents>>
    BY <1>1 DEF PlayerStep, SetNum, AuctionBet, Logout, Login, history
  <2> QED
    BY <2>1, LotsKept DEF Open
<1>2. CASE PersistPlayer \/ ReadOrder \/ RefundPrevious \/ RefundFails \/ ApplyCompletion
  <2>1. UNCHANGED <<created, finalVars, handed, orders, incidents>>
    BY <1>2 DEF PersistPlayer, ReadOrder, RefundPrevious, RefundFails, ApplyCompletion, history
  <2> QED
    BY <2>1, LotsKept DEF Open
<1>3. CASE PersistCreate
  <2>1. /\ created + 1 \in OrderIds /\ orders'[created + 1] \in Orders
        /\ created' = created + 1 /\ UNCHANGED <<finalVars, history>> /\ created \in Nat
    BY <1>3, PersistCreateType DEF PersistCreate, TypeInv, TypeOK
  <2>2. orders'[created + 1] # None /\ \A x \in OrderIds : x # created + 1 => (Open(x)' <=> Open(x))
    BY <1>3, <2>1, NoneAssumption DEF PersistCreate, Open, TypeInv, TypeOK
  <2>3. handed[created + 1] = 0 /\ ~Open(created + 1)
    BY <2>1 DEF LotInv, FutureLots
  <2>4. FutureLots'
    BY <2>1, <2>2 DEF LotInv, FutureLots, history, OrderIds, Open
  <2>5. ListedIsOpen'
    <3>1. /\ \A s \in todo : s.id \in OrderIds
          /\ stage # "idle" => job.id \in OrderIds
      BY SnapshotsAre, JobIs DEF TypeInv, TypeOK
    <3> QED
      BY <2>1, <2>2, <3>1 DEF LotInv, ListedIsOpen, finalVars, Open
  <2>6. HandedIsClosed'
    BY <2>1, <2>2, <2>3 DEF LotInv, HandedIsClosed, finalVars, history, Open
  <2> QED
    BY <2>4, <2>5, <2>6 DEF LotInv
<1>4. CASE CasBet
  <2>1. UNCHANGED <<created, finalVars, handed, incidents>>
    BY <1>4 DEF CasBet, history
  <2> QED
    BY <1>4, <2>1, CasBetType, LotsKept
<1>5. CASE RollbackBet
  <2>1. UNCHANGED <<created, finalVars, handed>> /\ incidents \subseteq incidents'
    BY <1>5 DEF RollbackBet, Record
  <2> QED
    BY <1>5, <2>1, RollbackBetType, LotsKept
<1>6. CASE ListReady
  <2>1. /\ \A s \in todo' : s.id \in OrderIds /\ Open(s.id) /\ s.order = orders[s.id]
        /\ UNCHANGED <<orders, created, job, stage, history>> /\ stage = "idle"
    BY <1>6, ListReadyType DEF ListReady
  <2>2. \A s, t \in todo' : s.id = t.id => s = t
    BY <1>6 DEF ListReady, list_ready_orders
  <2> QED
    BY <2>1, <2>2 DEF LotInv, FutureLots, ListedIsOpen, HandedIsClosed, Open, history
<1>7. ASSUME NEW s \in todo, BeginFinalize(s)
      PROVE  LotInv'
  <2>1. UNCHANGED <<orders, created, history>> /\ stage = "idle" /\ todo' = todo \ {s} /\ job' = s
    BY <1>7 DEF BeginFinalize
  <2> QED
    BY <2>1 DEF LotInv, FutureLots, ListedIsOpen, HandedIsClosed, Open, history
<1>8. CASE FinalizeOffline
  <2>1. stage = "offline" /\ stage' = "idle" /\ UNCHANGED <<created, todo>>
    BY <1>8 DEF FinalizeOffline, Finish
  <2>2. CASE Remove(job) /\ HandOver(job.id)
    BY <2>1, <2>2, LotsRemoved
  <2>3. CASE UNCHANGED <<orders, history>>
    BY <2>1, <2>3, LotsInHand DEF Open, history
  <2> QED
    BY <1>8, <2>2, <2>3 DEF FinalizeOffline
<1>9. CASE CreditSeller
  <2>1. /\ stage = "seller" /\ UNCHANGED <<orders, created, todo, history>>
        /\ stage' = "idle" \/ job' = job
    BY <1>9 DEF CreditSeller, Finish
  <2> QED
    BY <2>1, LotsInHand DEF Open, history
<1>10. CASE CreditBuyer
  <2>1. stage = "buyer" /\ UNCHANGED <<orders, created, todo, job, incidents>>
    BY <1>10 DEF CreditBuyer
  <2>2. CASE HandOver(job.id) /\ stage' = "delete"
    <3>1. /\ job.id \in OrderIds /\ Open(job.id) /\ \A s \in todo : s.id # job.id
      BY <2>1, JobIs DEF LotInv, ListedIsOpen
    <3>2. /\ handed'[job.id] = handed[job.id] + 1 /\ handed[job.id] \in Nat
          /\ \A x \in OrderIds : x # job.id => handed'[x] = handed[x]
      BY <2>2, <3>1, HandOverType DEF TypeInv, TypeOK
    <3>3. FutureLots'
      BY <2>1, <3>1, <3>2 DEF LotInv, FutureLots, Open
    <3>4. HandedIsClosed'
      BY <2>1, <2>2, <3>1, <3>2 DEF LotInv, HandedIsClosed, Open
    <3>5. ListedIsOpen'
      BY <2>1, <2>2, <3>1 DEF LotInv, ListedIsOpen, Open
    <3> QED
      BY <3>3, <3>4, <3>5 DEF LotInv
  <2>3. CASE UNCHANGED handed
    BY <2>1, <2>3, LotsInHand DEF Open
  <2> QED
    BY <1>10, <2>2, <2>3 DEF CreditBuyer
<1>11. CASE RevokeSeller
  <2>1. /\ stage = "revoke" /\ UNCHANGED <<orders, created, todo, handed>>
        /\ stage' = "idle" /\ incidents \subseteq incidents'
    BY <1>11 DEF RevokeSeller, Finish, Record
  <2> QED
    BY <2>1, LotsInHand DEF Open
<1>12. CASE DeleteOrder
  <2>1. stage = "delete" /\ stage' = "idle" /\ UNCHANGED <<created, todo, handed>>
    BY <1>12 DEF DeleteOrder, Finish
  <2>2. CASE Remove(job)
    BY <2>1, <2>2, LotsRemoved
  <2>3. CASE Record("delete") /\ UNCHANGED orders
    BY <2>1, <2>3, LotsInHand DEF Open, Record
  <2> QED
    BY <1>12, <2>2, <2>3 DEF DeleteOrder
<1>13. ASSUME NEW p \in Players, FlushDirty(p)
       PROVE  LotInv'
  <2>1. UNCHANGED <<created, finalVars, handed, orders, incidents>>
    BY <1>13 DEF FlushDirty, history
  <2> QED
    BY <2>1, LotsKept DEF Open
<1>14. ASSUME NEW o \in OrderIds, Ripen(o)
       PROVE  LotInv'
  <2>1. UNCHANGED <<created, finalVars, handed, incidents>>
    BY <1>14 DEF Ripen, history
  <2> QED
    BY <1>14, <2>1, RipenType, LotsKept
<1>15. CASE UNCHANGED vars
  <2>1. UNCHANGED <<created, finalVars, handed, orders, incidents>>
    BY <1>15 DEF vars, history
  <2> QED
    BY <2>1, LotsKept DEF Open
<1> QED
  BY <1>1, <1>2, <1>3, <1>4, <1>5, <1>6, <1>7, <1>8, <1>9, <1>10, <1>11, <1>12, <1>13,
     <1>14, <1>15 DEF Next, WorkerStep, FinalizeStep

THEOREM LotAlways == Spec => []LotInv
BY TypeAlways, LotInit, LotStep, PTL DEF Spec

\* No lot is handed over twice, for any number of players, lots, bids and
\* failing calls, until a delete_order fails: finalize_ready_order works from
\* snapshots, but only the finalizer deletes lots, so what it has listed and
\* not yet worked on is still open and was not handed over.
THEOREM LotsAreHandedOverOnce == Spec => []HandedOverOnce
<1>1. TypeInv /\ LotInv => HandedOverOnce
  BY DEF TypeInv, TypeOK, LotInv, HandedIsClosed, HandedOverOnce
<1> QED
  BY <1>1, TypeAlways, LotAlways, PTL

\* The transaction of finalize_order_offline closes a lot only as it was
\* listed, so no step taken in that stage records an overtaken bid.
THEOREM OfflineIsTransactional == Spec => OfflineSeesLastBid
<1>1. ASSUME TypeInv, [Next]_vars, stage = "offline", "overtaken" \in incidents'
      PROVE  "overtaken" \in incidents
  <2>1. CASE FinalizeOffline
    <3>1. ASSUME Unchanged(job), Remove(job)
          PROVE  UNCHANGED incidents
      <4>1. Holds(job.id, job.order.buyer, job.order.cost)
        BY <1>1, <3>1, JobIs, NoneAssumption DEF Unchanged, Holds, Open
      <4> QED
        BY <3>1, <4>1 DEF Remove
    <3> QED
      BY <1>1, <2>1, <3>1 DEF FinalizeOffline, history
  <2>2. CASE RollbackBet
    BY <1>1, <2>2 DEF RollbackBet, Record
  <2>3. CASE ~FinalizeOffline /\ ~RollbackBet
    <3>1. UNCHANGED incidents
      BY <1>1, <2>3
      DEF Next, PlayerStep, WorkerStep, FinalizeStep, SetNum, AuctionBet, Logout, Login,
          PersistPlayer, PersistCreate, ReadOrder, CasBet, RefundPrevious, RefundFails,
          ApplyCompletion, FlushDirty, Ripen, ListReady, BeginFinalize, CreditSeller,
          CreditBuyer, RevokeSeller, DeleteOrder, history, vars
    <3> QED
      BY <1>1, <3>1
  <2> QED
    BY <2>1, <2>2, <2>3
<1>2. TypeInv /\ [Next]_vars
        => [stage = "offline" /\ "overtaken" \in incidents' => "overtaken" \in incidents]_vars
  BY <1>1
<1> QED
  BY <1>2, TypeAlways, PTL DEF Spec, OfflineSeesLastBid
------------------------------------------------------------------------------
(***************************************************************************)
(* Sums.  SumFunctionOnSet is a fold over a recursively defined function;  *)
(* what it computes is proved by induction on the number of terms, with a  *)
(* set in the place of the property.                                       *)
(***************************************************************************)
\* Induction: a set with 0 and with each number's successor has them all.
LEMMA Induction ==
    ASSUME NEW G, 0 \in G, \A n \in Nat : n \in G => n + 1 \in G
    PROVE  Nat \subseteq G
<1> SUFFICES ASSUME NEW k \in Nat, k \notin G PROVE FALSE
  OBVIOUS
<1> DEFINE T == {n \in Nat : n \notin G}
           R == OpToRel(<, Nat)
<1>1. IsWellFoundedOn(R, Nat)
  BY NatLessThanWellFounded
<1>2. T \subseteq Nat /\ T # {}
  OBVIOUS
<1>3. PICK m \in T : \A y \in T : <<y, m>> \notin R
  <2> HIDE DEF T, R
  <2> QED
    BY <1>1, <1>2, WFMin
<1>4. \A y \in T : ~(y < m)
  BY <1>2, <1>3 DEF OpToRel
<1> QED
  BY <1>2, <1>4

\* The fold takes a chosen element out of the set, and its function on the
\* subsets is the one that satisfies its own recursive equation.
Pick(s) == CHOOSE x \in s : TRUE
IsIter(g, f, D) ==
    g = [s \in D |-> IF s = {} THEN 0 ELSE f[Pick(s)] + g[s \ {Pick(s)}]]
Iter(f, S) == CHOOSE g : IsIter(g, f, SUBSET S)

LEMMA SumIsIter ==
    ASSUME NEW f, NEW S
    PROVE  SumFunctionOnSet(f, S) = Iter(f, S)[S]
BY DEF SumFunctionOnSet, FoldFunctionOnSet, MapThenFoldSet, Iter, IsIter, Pick

LEMMA PickIs ==
    ASSUME NEW s, s # {}
    PROVE  Pick(s) \in s
BY DEF Pick

\* The subsets with at most n elements.
Small(S, n) == {s \in SUBSET S : Cardinality(s) <= n}

LEMMA Smaller ==
    ASSUME NEW S, IsFiniteSet(S), NEW n \in Nat, NEW s \in Small(S, n + 1), NEW x \in s
    PROVE  s \ {x} \in Small(S, n)
<1>1. IsFiniteSet(s) /\ s \subseteq S /\ Cardinality(s) <= n + 1
  BY FS_Subset DEF Small
<1>2. Cardinality(s \ {x}) = Cardinality(s) - 1 /\ Cardinality(s) \in Nat
  BY <1>1, FS_RemoveElement, FS_CardinalityType
<1> QED
  BY <1>1, <1>2 DEF Small

LEMMA SmallIsAll ==
    ASSUME NEW S, IsFiniteSet(S)
    PROVE  Small(S, Cardinality(S)) = SUBSET S
BY FS_Subset DEF Small

LEMMA SmallIsEmpty ==
    ASSUME NEW S, IsFiniteSet(S), NEW s \in Small(S, 0)
    PROVE  s = {}
<1>1. IsFiniteSet(s) /\ Cardinality(s) <= 0
  BY FS_Subset DEF Small
<1>2. Cardinality(s) = 0
  BY <1>1, FS_CardinalityType
<1> QED
  BY <1>1, <1>2, FS_EmptySet

\* The recursive equation has a solution when the set is finite.
LEMMA IterExists ==
    ASSUME NEW S, IsFiniteSet(S), NEW f
    PROVE  IsIter(Iter(f, S), f, SUBSET S)
<1> DEFINE G == {n \in Nat : \E g : IsIter(g, f, Small(S, n))}
<1>1. 0 \in G
  <2> DEFINE g == [s \in Small(S, 0) |-> 0]
  <2>1. IsIter(g, f, Small(S, 0))
    BY SmallIsEmpty DEF IsIter
  <2> QED
    BY <2>1
<1>2. ASSUME NEW n \in Nat, n \in G PROVE n + 1 \in G
  <2>1. PICK g : IsIter(g, f, Small(S, n))
    BY <1>2
  <2> DEFINE V(s) == IF s = {} THEN 0 ELSE f[Pick(s)] + g[s \ {Pick(s)}]
             h == [s \in Small(S, n + 1) |-> V(s)]
  <2>2. \A s \in Small(S, n) : s \in Small(S, n + 1) /\ g[s] = V(s)
    <3>1. ASSUME NEW s \in Small(S, n) PROVE s \in Small(S, n + 1)
      <4>1. IsFiniteSet(s) /\ Cardinality(s) <= n
        BY FS_Subset DEF Small
      <4>2. Cardinality(s) \in Nat
        BY <4>1, FS_CardinalityType
      <4> QED
        BY <4>1, <4>2 DEF Small
    <3> QED
      BY <2>1, <3>1 DEF IsIter
  <2>3. ASSUME NEW s \in Small(S, n + 1), s # {}
        PROVE  h[s \ {Pick(s)}] = g[s \ {Pick(s)}]
    <3>1. s \ {Pick(s)} \in Small(S, n)
      BY <2>3, PickIs, Smaller
    <3> QED
      BY <2>2, <3>1
  <2>4. h = [s \in Small(S, n + 1) |-> IF s = {} THEN 0 ELSE f[Pick(s)] + h[s \ {Pick(s)}]]
    BY <2>3
  <2>5. IsIter(h, f, Small(S, n + 1))
    BY <2>4 DEF IsIter
  <2> QED
    BY <2>5
<1>3. Cardinality(S) \in Nat
  BY FS_CardinalityType
<1>4. Cardinality(S) \in G
  <2> HIDE DEF G
  <2> QED
    BY <1>1, <1>2, <1>3, Induction
<1>5. \E g : IsIter(g, f, SUBSET S)
  BY <1>4, SmallIsAll
<1> QED
  BY <1>5 DEF Iter

\* The iteration over a set and over a part of it agree on that part.
LEMMA IterRestricts ==
    ASSUME NEW S, IsFiniteSet(S), NEW P \in SUBSET S, NEW f
    PROVE  \A s \in SUBSET P : Iter(f, S)[s] = Iter(f, P)[s]
<1> DEFINE g == Iter(f, S)
           h == Iter(f, P)
           G == {n \in Nat : \A s \in Small(P, n) : g[s] = h[s]}
<1>1. IsFiniteSet(P) /\ IsIter(g, f, SUBSET S) /\ IsIter(h, f, SUBSET P)
  BY IterExists, FS_Subset
<1> HIDE DEF g, h
<1>2. \A s \in SUBSET P :
        /\ g[s] = IF s = {} THEN 0 ELSE f[Pick(s)] + g[s \ {Pick(s)}]
        /\ h[s] = IF s = {} THEN 0 ELSE f[Pick(s)] + h[s \ {Pick(s)}]
  BY <1>1 DEF IsIter
<1>3. 0 \in G
  BY <1>1, <1>2, SmallIsEmpty
<1>4. ASSUME NEW n \in Nat, n \in G PROVE n + 1 \in G
  <2> SUFFICES ASSUME NEW s \in Small(P, n + 1) PROVE g[s] = h[s]
    OBVIOUS
  <2>1. CASE s = {}
    BY <1>2, <2>1
  <2>2. CASE s # {}
    <3>1. s \ {Pick(s)} \in Small(P, n)
      BY <1>1, <2>2, PickIs, Smaller
    <3>2. g[s \ {Pick(s)}] = h[s \ {Pick(s)}]
      BY <1>4, <3>1
    <3> QED
      BY <1>2, <2>2, <3>2 DEF Small
  <2> QED
    BY <2>1, <2>2
<1>5. Cardinality(P) \in G
  <2>1. Cardinality(P) \in Nat
    BY <1>1, FS_CardinalityType
  <2> HIDE DEF G
  <2> QED
    BY <1>3, <1>4, <2>1, Induction
<1> QED
  BY <1>1, <1>5, SmallIsAll DEF g, h

LEMMA SumEmpty ==
    ASSUME NEW f
    PROVE  SumFunctionOnSet(f, {}) = 0
<1>1. IsIter(Iter(f, {}), f, SUBSET {})
  BY IterExists, FS_EmptySet
<1> QED
  BY <1>1, SumIsIter DEF IsIter

LEMMA SumPick ==
    ASSUME NEW S, IsFiniteSet(S), S # {}, NEW f
    PROVE  SumFunctionOnSet(f, S) = f[Pick(S)] + SumFunctionOnSet(f, S \ {Pick(S)})
<1> DEFINE P == S \ {Pick(S)}
<1>1. IsIter(Iter(f, S), f, SUBSET S)
  BY IterExists
<1>2. Iter(f, S)[S] = f[Pick(S)] + Iter(f, S)[P]
  BY <1>1 DEF IsIter
<1>3. Iter(f, S)[P] = Iter(f, P)[P]
  BY IterRestricts
<1> QED
  BY <1>2, <1>3, SumIsIter

LEMMA SumIsInt ==
    ASSUME NEW S, IsFiniteSet(S), NEW f, \A x \in S : f[x] \in Int
    PROVE  SumFunctionOnSet(f, S) \in Int
<1> DEFINE G == {n \in Nat : \A s \in Small(S, n) : SumFunctionOnSet(f, s) \in Int}
<1>1. 0 \in G
  BY SmallIsEmpty, SumEmpty
<1>2. ASSUME NEW n \in Nat, n \in G PROVE n + 1 \in G
  <2> SUFFICES ASSUME NEW s \in Small(S, n + 1) PROVE SumFunctionOnSet(f, s) \in Int
    OBVIOUS
  <2>1. IsFiniteSet(s) /\ s \subseteq S
    BY FS_Subset DEF Small
  <2>2. CASE s = {}
    BY <2>2, SumEmpty
  <2>3. CASE s # {}
    <3>1. SumFunctionOnSet(f, s) = f[Pick(s)] + SumFunctionOnSet(f, s \ {Pick(s)})
      BY <2>1, <2>3, SumPick
    <3>2. Pick(s) \in s
      BY <2>3, PickIs
    <3>3. SumFunctionOnSet(f, s \ {Pick(s)}) \in Int
      BY <1>2, <3>2, Smaller
    <3> QED
      BY <2>1, <3>1, <3>2, <3>3
  <2> QED
    BY <2>2, <2>3
<1>3. Cardinality(S) \in G
  <2>1. Cardinality(S) \in Nat
    BY FS_CardinalityType
  <2> HIDE DEF G
  <2> QED
    BY <1>1, <1>2, <2>1, Induction
<1> QED
  BY <1>3, SmallIsAll

LEMMA SumCong ==
    ASSUME NEW S, IsFiniteSet(S), NEW f, NEW h, \A x \in S : f[x] = h[x]
    PROVE  SumFunctionOnSet(f, S) = SumFunctionOnSet(h, S)
<1> DEFINE G == {n \in Nat : \A s \in Small(S, n) : SumFunctionOnSet(f, s) = SumFunctionOnSet(h, s)}
<1>1. 0 \in G
  BY SmallIsEmpty, SumEmpty
<1>2. ASSUME NEW n \in Nat, n \in G PROVE n + 1 \in G
  <2> SUFFICES ASSUME NEW s \in Small(S, n + 1) PROVE SumFunctionOnSet(f, s) = SumFunctionOnSet(h, s)
    OBVIOUS
  <2>1. IsFiniteSet(s) /\ s \subseteq S
    BY FS_Subset DEF Small
  <2>2. CASE s = {}
    BY <2>2, SumEmpty
  <2>3. CASE s # {}
    <3>1. /\ SumFunctionOnSet(f, s) = f[Pick(s)] + SumFunctionOnSet(f, s \ {Pick(s)})
          /\ SumFunctionOnSet(h, s) = h[Pick(s)] + SumFunctionOnSet(h, s \ {Pick(s)})
      BY <2>1, <2>3, SumPick
    <3>2. Pick(s) \in s
      BY <2>3, PickIs
    <3>3. SumFunctionOnSet(f, s \ {Pick(s)}) = SumFunctionOnSet(h, s \ {Pick(s)})
      BY <1>2, <3>2, Smaller
    <3> QED
      BY <2>1, <3>1, <3>2, <3>3
  <2> QED
    BY <2>2, <2>3
<1>3. Cardinality(S) \in G
  <2>1. Cardinality(S) \in Nat
    BY FS_CardinalityType
  <2> HIDE DEF G
  <2> QED
    BY <1>1, <1>2, <2>1, Induction
<1> QED
  BY <1>3, SmallIsAll

\* Any element can be taken out first.
LEMMA SumRemove ==
    ASSUME NEW S, IsFiniteSet(S), NEW f, \A x \in S : f[x] \in Int, NEW a \in S
    PROVE  SumFunctionOnSet(f, S) = f[a] + SumFunctionOnSet(f, S \ {a})
<1> DEFINE G == {n \in Nat : \A s \in Small(S, n) : \A x \in s :
                                SumFunctionOnSet(f, s) = f[x] + SumFunctionOnSet(f, s \ {x})}
<1>1. 0 \in G
  BY SmallIsEmpty
<1>2. ASSUME NEW n \in Nat, n \in G PROVE n + 1 \in G
  <2> SUFFICES ASSUME NEW s \in Small(S, n + 1), NEW x \in s
               PROVE  SumFunctionOnSet(f, s) = f[x] + SumFunctionOnSet(f, s \ {x})
    OBVIOUS
  <2> DEFINE c == Pick(s)
  <2>1. IsFiniteSet(s) /\ s \subseteq S /\ c \in s
    BY FS_Subset, PickIs DEF Small
  <2>2. SumFunctionOnSet(f, s) = f[c] + SumFunctionOnSet(f, s \ {c})
    BY <2>1, SumPick
  <2> HIDE DEF c
  <2>3. CASE x = c
    BY <2>2, <2>3
  <2>4. CASE x # c
    <3>1. s \ {c} \in Small(S, n) /\ s \ {x} \in Small(S, n)
      BY <2>1, Smaller
    <3>2. SumFunctionOnSet(f, s \ {c}) = f[x] + SumFunctionOnSet(f, (s \ {c}) \ {x})
      BY <1>2, <2>4, <3>1
    <3>3. SumFunctionOnSet(f, s \ {x}) = f[c] + SumFunctionOnSet(f, (s \ {x}) \ {c})
      BY <1>2, <2>1, <2>4, <3>1
    <3>4. (s \ {c}) \ {x} = (s \ {x}) \ {c}
      OBVIOUS
    <3> DEFINE r == SumFunctionOnSet(f, (s \ {x}) \ {c})
    <3>5. r \in Int
      <4>1. IsFiniteSet((s \ {x}) \ {c}) /\ \A y \in (s \ {x}) \ {c} : f[y] \in Int
        BY <2>1, FS_Subset
      <4> QED
        BY <4>1, SumIsInt
    <3> HIDE DEF r
    <3>6. SumFunctionOnSet(f, s \ {c}) = f[x] + r /\ SumFunctionOnSet(f, s \ {x}) = f[c] + r
      BY <3>2, <3>3, <3>4 DEF r
    <3>7. f[x] \in Int /\ f[c] \in Int
      BY <2>1
    <3> QED
      BY <2>2, <3>5, <3>6, <3>7
  <2> QED
    BY <2>3, <2>4
<1>3. Cardinality(S) \in G
  <2>1. Cardinality(S) \in Nat
    BY FS_CardinalityType
  <2> HIDE DEF G
  <2> QED
    BY <1>1, <1>2, <2>1, Induction
<1> QED
  BY <1>3, SmallIsAll

\* A sum changes by what one of its terms changes.
LEMMA SumUpdate ==
    ASSUME NEW S, IsFiniteSet(S), NEW f, NEW h, \A x \in S : f[x] \in Int, NEW a \in S,
           h[a] \in Int, \A x \in S \ {a} : h[x] = f[x]
    PROVE  SumFunctionOnSet(h, S) = SumFunctionOnSet(f, S) + (h[a] - f[a])
<1>1. IsFiniteSet(S \ {a}) /\ \A x \in S : h[x] \in Int
  BY FS_Subset
<1>2. SumFunctionOnSet(f, S) = f[a] + SumFunctionOnSet(f, S \ {a}) /\ SumFunctionOnSet(h, S) = h[a] + SumFunctionOnSet(h, S \ {a})
  BY <1>1, SumRemove
<1>3. SumFunctionOnSet(h, S \ {a}) = SumFunctionOnSet(f, S \ {a}) /\ SumFunctionOnSet(f, S \ {a}) \in Int
  BY <1>1, SumCong, SumIsInt
<1> QED
  BY <1>2, <1>3

\* Sums along a sequence: a term more at the end, a term less at the front.
LEMMA SumLast ==
    ASSUME NEW n \in Nat, NEW f, \A i \in 1..(n + 1) : f[i] \in Int
    PROVE  SumFunctionOnSet(f, 1..(n + 1)) = SumFunctionOnSet(f, 1..n) + f[n + 1] /\ SumFunctionOnSet(f, 1..n) \in Int
<1>1. IsFiniteSet(1..(n + 1)) /\ IsFiniteSet(1..n)
  BY FS_Interval
<1>2. n + 1 \in 1..(n + 1) /\ (1..(n + 1)) \ {n + 1} = 1..n
  OBVIOUS
<1>3. SumFunctionOnSet(f, 1..(n + 1)) = f[n + 1] + SumFunctionOnSet(f, 1..n)
  BY <1>1, <1>2, SumRemove
<1>4. SumFunctionOnSet(f, 1..n) \in Int
  BY <1>1, SumIsInt
<1> QED
  BY <1>2, <1>3, <1>4

LEMMA SumFirst ==
    ASSUME NEW n \in Nat, NEW f, NEW h, \A i \in 1..(n + 1) : f[i] \in Int,
           \A i \in 1..n : h[i] = f[i + 1]
    PROVE  SumFunctionOnSet(f, 1..(n + 1)) = f[1] + SumFunctionOnSet(h, 1..n) /\ SumFunctionOnSet(h, 1..n) \in Int
<1> DEFINE G == {k \in Nat : k <= n => SumFunctionOnSet(f, 1..(k + 1)) = f[1] + SumFunctionOnSet(h, 1..k)}
<1>1. \A i \in 1..n : h[i] \in Int
  OBVIOUS
<1>2. 0 \in G
  <2>1. 1..0 = {} /\ 0 + 1 = 1 /\ f[1] \in Int /\ \A i \in 1..(0 + 1) : f[i] \in Int
    OBVIOUS
  <2>2. SumFunctionOnSet(f, 1..(0 + 1)) = SumFunctionOnSet(f, 1..0) + f[0 + 1]
    BY <2>1, SumLast
  <2>3. SumFunctionOnSet(f, 1..0) = 0 /\ SumFunctionOnSet(h, 1..0) = 0
    BY <2>1, SumEmpty
  <2>4. SumFunctionOnSet(f, 1..(0 + 1)) = f[1] + SumFunctionOnSet(h, 1..0)
    BY <2>1, <2>2, <2>3
  <2> QED
    BY <2>4
<1>3. ASSUME NEW k \in Nat, k \in G PROVE k + 1 \in G
  <2> SUFFICES ASSUME k + 1 <= n
               PROVE  SumFunctionOnSet(f, 1..(k + 1 + 1)) = f[1] + SumFunctionOnSet(h, 1..(k + 1))
    OBVIOUS
  <2>1. SumFunctionOnSet(f, 1..(k + 1 + 1)) = SumFunctionOnSet(f, 1..(k + 1)) + f[k + 1 + 1]
    BY SumLast
  <2>2. SumFunctionOnSet(h, 1..(k + 1)) = SumFunctionOnSet(h, 1..k) + h[k + 1] /\ SumFunctionOnSet(h, 1..k) \in Int
    BY <1>1, SumLast
  <2>3. SumFunctionOnSet(f, 1..(k + 1)) = f[1] + SumFunctionOnSet(h, 1..k)
    BY <1>3
  <2>4. h[k + 1] = f[k + 1 + 1] /\ h[k + 1] \in Int /\ f[1] \in Int
    OBVIOUS
  <2> QED
    BY <2>1, <2>2, <2>3, <2>4
<1>4. n \in G
  <2> HIDE DEF G
  <2> QED
    BY <1>2, <1>3, Induction
<1>5. SumFunctionOnSet(h, 1..n) \in Int
  <2>1. IsFiniteSet(1..n)
    BY FS_Interval
  <2> QED
    BY <1>1, <2>1, SumIsInt
<1> QED
  BY <1>4, <1>5
------------------------------------------------------------------------------
(***************************************************************************)
(* The books.  They balance while nobody logs in or out and no price is    *)
(* negative.                                                               *)
(***************************************************************************)
ClosedMarket == Leavers = {} /\ Costs \subseteq Nat

\* Who is online stays so: the one charged for a bid is the one who placed
\* it, and the path the finalizer chose is still right when it gets there.
BiddersAreOnline ==
    /\ \A i \in DOMAIN saves : saves[i].kind # "create" => Online(saves[i].player)
    /\ bet # None => Online(bet.player)
    /\ \A i \in DOMAIN completions : completions[i].won => Online(completions[i].player)
    /\ stage = "offline" => ~Online(job.order.buyer) /\ ~Online(job.order.seller)

PricesAreNat ==
    /\ \A o \in OrderIds : Open(o) => orders[o].cost >= 0
    /\ \A i \in DOMAIN saves : saves[i].kind = "create" => saves[i].cost >= 0
    /\ bet # None => 0 <= bet.seen.cost /\ bet.seen.cost <= bet.amount

\* A listed lot has kept its items, and its price has not fallen.
Listed == todo \cup (IF stage = "idle" THEN {} ELSE {job})
ListedIsCurrent ==
    \A s \in Listed : orders[s.id].num = s.order.num /\ s.order.cost <= orders[s.id].cost

\* Between the compare-and-swap and the refund or the rollback the lot holds
\* the new bid, it cannot be listed, and if the finalizer deleted it without
\* an incident the two bids were equal.
Swapped == bet # None /\ bet.step # "cas"
SwapIsKnown ==
    Swapped =>
        /\ bet.seen.buyer \in Players
        /\ Open(bet.id) => /\ orders[bet.id].buyer = bet.player
                           /\ orders[bet.id].cost = bet.amount /\ orders[bet.id].fresh
        /\ \A s \in Listed : s.id = bet.id => s.order.cost <= bet.seen.cost
        /\ ~Open(bet.id) /\ incidents = {} => bet.amount = bet.seen.cost

BidInv == BiddersAreOnline /\ PricesAreNat /\ ListedIsCurrent /\ SwapIsKnown
Inv == TypeInv /\ LotInv /\ BidInv

LEMMA BidInit == Init /\ ClosedMarket => BidInv
<1> SUFFICES ASSUME Init, ClosedMarket PROVE BidInv
  OBVIOUS
<1> PICK old \in OldLots, online \in SUBSET Players :
      /\ orders = [o \in OrderIds |-> IF o = 1 THEN old ELSE None]
      /\ saves = <<>> /\ bet = None /\ completions = <<>>
      /\ todo = {} /\ stage = "idle"
  BY DEF Init
<1>1. old # None => old.cost \in Nat
  BY DEF OldLots, ClosedMarket
<1>2. PricesAreNat
  BY <1>1 DEF PricesAreNat, Open
<1> QED
  BY <1>2 DEF BidInv, BiddersAreOnline, ListedIsCurrent, Listed, SwapIsKnown, Swapped

LEMMA OnlineStays ==
    ASSUME TypeInv, ClosedMarket, [Next]_vars
    PROVE  \A q \in Players : Online(q)' <=> Online(q)
<1>1. ASSUME NEW p \in Players, NEW num \in 1..StartItems, NEW cost \in Costs,
             SetNum(p, num, cost)
      PROVE  \A q \in Players : Online(q)' <=> Online(q)
  <2>1. entity[p] \in Wealth /\ -num \in Int /\ Online(p)
    BY <1>1, WealthAssumption DEF SetNum, Online, TypeInv, TypeOK
  <2>2. Receive(entity[p], -num) # None
    BY <2>1, ReceiveIs
  <2> QED
    BY <1>1, <2>1, <2>2 DEF SetNum, Online, TypeInv, TypeOK
<1>2. CASE ApplyCompletion
  BY <1>2, ApplyCompletionType
<1>3. CASE CreditSeller \/ CreditBuyer \/ RevokeSeller
  <2>1. /\ PursesOK /\ job.order.seller \in Players /\ job.order.cost \in Int
        /\ -job.order.cost \in Int /\ job.order.buyer \in Players /\ job.order.num \in Int
    BY <1>3, JobIs DEF CreditSeller, CreditBuyer, RevokeSeller, PursesOK, TypeInv, TypeOK
  <2>2. \/ CreditMoney(job.order.seller, job.order.cost)
        \/ CreditMoney(job.order.seller, -job.order.cost)
        \/ CreditItems(job.order.buyer, job.order.num)
        \/ UNCHANGED entity
    BY <1>3 DEF CreditSeller, CreditBuyer, RevokeSeller, CreditFails, gameVars
  <2> QED
    BY <2>1, <2>2, CreditMoneyType, CreditItemsType DEF Online
<1>4. ASSUME UNCHANGED entity
      PROVE  \A q \in Players : Online(q)' <=> Online(q)
  BY <1>4 DEF Online
<1>5. \/ UNCHANGED entity
      \/ ApplyCompletion \/ CreditSeller \/ CreditBuyer \/ RevokeSeller
      \/ \E p \in Players, num \in 1..StartItems, cost \in Costs : SetNum(p, num, cost)
  BY DEF ClosedMarket, Next, PlayerStep, WorkerStep, FinalizeStep, AuctionBet, Logout, Login,
         PersistPlayer, PersistCreate, ReadOrder, CasBet, RefundPrevious, RefundFails,
         RollbackBet, FlushDirty, Ripen, ListReady, BeginFinalize, FinalizeOffline,
         DeleteOrder, vars, gameVars
<1> QED
  BY <1>1, <1>2, <1>3, <1>4, <1>5

\* What a step does to the save queue.
LEMMA QueueSteps ==
    ASSUME TypeInv, ClosedMarket, [Next]_vars
    PROVE  \/ saves' = saves
           \/ saves # <<>> /\ saves' = Tail(saves)
           \/ \E c \in SaveCommands :
                 /\ saves' = Append(saves, c)
                 /\ c.kind = "create" => c.cost >= 0
                 /\ c.kind # "create" => Online(c.player)
<1> DEFINE Added == \E c \in SaveCommands :
                        /\ saves' = Append(saves, c)
                        /\ c.kind = "create" => c.cost >= 0
                        /\ c.kind # "create" => Online(c.player)
<1>1. ASSUME NEW p \in Players, NEW num \in 1..StartItems, NEW cost \in Costs,
             SetNum(p, num, cost)
      PROVE  Added
  <2> DEFINE c == [kind |-> "create", player |-> p, num |-> num, cost |-> cost]
  <2>1. num \in Nat \ {0} /\ cost \in Nat
    BY WealthAssumption DEF ClosedMarket
  <2>2. c \in SaveCommands
    BY <2>1, CommandsAre
  <2>3. c.kind = "create" /\ c.cost >= 0
    BY <2>1
  <2>4. saves' = Append(saves, c)
    BY <1>1 DEF SetNum
  <2> HIDE DEF c
  <2> QED
    BY <2>2, <2>3, <2>4
<1>2. ASSUME NEW p \in Players, NEW o \in OrderIds, NEW amount \in Amounts \cup {None},
             AuctionBet(p, o, amount)
      PROVE  Added
  <2> DEFINE c == [kind |-> "bet", player |-> p, id |-> o, amount |-> amount,
                   money |-> entity[p].money]
  <2>1. entity[p].money \in Int /\ Online(p)
    BY <1>2 DEF AuctionBet, Online, TypeInv, TypeOK, Wealth
  <2>2. c \in SaveCommands /\ c.kind # "create" /\ c.player = p
    BY <2>1, PricesAssumption, CommandsAre
  <2>3. saves' = Append(saves, c)
    BY <1>2 DEF AuctionBet
  <2> HIDE DEF c
  <2> QED
    BY <2>1, <2>2, <2>3
<1>3. ASSUME NEW p \in Players, FlushDirty(p)
      PROVE  Added
  <2> DEFINE c == [kind |-> "player", player |-> p, row |-> entity[p]]
  <2>1. Online(p) /\ entity[p] \in Wealth
    BY <1>3 DEF FlushDirty, Online, TypeInv, TypeOK
  <2>2. c \in SaveCommands /\ c.kind # "create" /\ c.player = p
    BY <2>1, CommandsAre
  <2>3. saves' = Append(saves, c)
    BY <1>3 DEF FlushDirty, Save
  <2> HIDE DEF c
  <2> QED
    BY <2>1, <2>2, <2>3
<1>4. \/ saves' = saves
      \/ saves # <<>> /\ saves' = Tail(saves)
      \/ \E p \in Players, num \in 1..StartItems, cost \in Costs : SetNum(p, num, cost)
      \/ \E p \in Players, o \in OrderIds, amount \in Amounts \cup {None} : AuctionBet(p, o, amount)
      \/ \E p \in Players : FlushDirty(p)
  BY DEF ClosedMarket, Next, PlayerStep, WorkerStep, FinalizeStep, Logout, Login,
         PersistPlayer, PersistCreate, ReadOrder, CasBet, RefundPrevious, RefundFails,
         RollbackBet, ApplyCompletion, Ripen, ListReady, BeginFinalize, FinalizeOffline,
         CreditSeller, CreditBuyer, RevokeSeller, DeleteOrder, vars, workerVars
<1> HIDE DEF Added
<1>5. saves' = saves \/ (saves # <<>> /\ saves' = Tail(saves)) \/ Added
  BY <1>1, <1>2, <1>3, <1>4
<1> QED
  BY <1>5 DEF Added

\* A property of every queued command is kept when commands that have it are
\* added at the end and taken from the front.
LEMMA QueueKeeps ==
    ASSUME TypeInv, ClosedMarket, [Next]_vars, BidInv
    PROVE  \A i \in DOMAIN saves' :
              /\ saves'[i].kind # "create" => Online(saves'[i].player)
              /\ saves'[i].kind = "create" => saves'[i].cost >= 0
<1> DEFINE Good(c) == /\ c.kind # "create" => Online(c.player)
                      /\ c.kind = "create" => c.cost >= 0
<1>1. saves \in Seq(SaveCommands) /\ \A i \in DOMAIN saves : Good(saves[i])
  BY DEF TypeInv, TypeOK, BidInv, BiddersAreOnline, PricesAreNat
<1>2. \/ saves' = saves
      \/ saves # <<>> /\ saves' = Tail(saves)
      \/ \E c \in SaveCommands : saves' = Append(saves, c) /\ Good(c)
  BY QueueSteps
<1> HIDE DEF Good
<1>3. ASSUME saves # <<>>, saves' = Tail(saves)
      PROVE  \A i \in DOMAIN saves' : Good(saves'[i])
  <2>1. \A i \in DOMAIN saves' : saves'[i] = saves[i + 1] /\ i + 1 \in DOMAIN saves
    BY <1>1, <1>3
  <2> QED
    BY <1>1, <2>1
<1>4. ASSUME NEW c \in SaveCommands, saves' = Append(saves, c), Good(c)
      PROVE  \A i \in DOMAIN saves' : Good(saves'[i])
  BY <1>1, <1>4
<1>5. \A i \in DOMAIN saves' : Good(saves'[i])
  BY <1>1, <1>2, <1>3, <1>4
<1> QED
  BY <1>5 DEF Good

\* What a step does to the completions, and that only a bidder is charged.
LEMMA CompletionSteps ==
    ASSUME TypeInv, ClosedMarket, [Next]_vars
    PROVE  \/ completions' = completions
           \/ completions # <<>> /\ completions' = Tail(completions)
           \/ \E c \in Completions :
                 /\ completions' = Append(completions, c)
                 /\ c.won => bet # None /\ c.player = bet.player
<1> DEFINE Added == \E c \in Completions :
                        /\ completions' = Append(completions, c)
                        /\ c.won => bet # None /\ c.player = bet.player
<1>1. ASSUME NEW p \in Players, Answer(Lost(p))
      PROVE  Added
  <2>1. Lost(p) \in Completions /\ ~Lost(p).won
    BY AnswersAre DEF Lost
  <2> QED
    BY <1>1, <2>1 DEF Answer
<1>2. ASSUME bet # None, Answer(Won(bet))
      PROVE  Added
  <2>1. Won(bet) \in Completions /\ Won(bet).player = bet.player
    BY <1>2, BetIs, AnswersAre DEF Won
  <2> QED
    BY <1>2, <2>1 DEF Answer
<1>3. ASSUME ReadOrder
      PROVE  completions' = completions \/ Added
  <2>1. saves \in Seq(SaveCommands) /\ saves # <<>>
    BY <1>3 DEF ReadOrder, TypeInv, TypeOK
  <2>2. Request \in SaveCommands
    BY <2>1, CreatingTail DEF Request
  <2>3. Request.player \in Players
    BY <2>2, Kinds
  <2> HIDE DEF Added
  <2> QED
    BY <1>1, <1>3, <2>3 DEF ReadOrder
<1>4. ASSUME CasBet \/ RefundPrevious \/ RollbackBet
      PROVE  completions' = completions \/ Added
  <2>1. bet # None /\ bet.player \in Players
    BY <1>4, BetIs DEF CasBet, RefundPrevious, RollbackBet
  <2>2. completions' = completions \/ Answer(Won(bet)) \/ Answer(Lost(bet.player))
    BY <1>4 DEF CasBet, RefundPrevious, RollbackBet
  <2> HIDE DEF Added
  <2> QED
    BY <1>1, <1>2, <2>1, <2>2
<1>5. \/ completions' = completions
      \/ completions # <<>> /\ completions' = Tail(completions)
      \/ ReadOrder \/ CasBet \/ RefundPrevious \/ RollbackBet
  BY DEF ClosedMarket, Next, PlayerStep, WorkerStep, FinalizeStep, SetNum, AuctionBet, Logout,
         Login, PersistPlayer, PersistCreate, RefundFails,
         ApplyCompletion, FlushDirty, Ripen, ListReady, BeginFinalize, FinalizeOffline,
         CreditSeller, CreditBuyer, RevokeSeller, DeleteOrder, vars, workerVars
<1> HIDE DEF Added
<1>6. \/ completions' = completions
      \/ completions # <<>> /\ completions' = Tail(completions)
      \/ Added
  BY <1>3, <1>4, <1>5
<1> QED
  BY <1>6 DEF Added

LEMMA CompletionsKeep ==
    ASSUME TypeInv, ClosedMarket, [Next]_vars, BidInv
    PROVE  \A i \in DOMAIN completions' : completions'[i].won => Online(completions'[i].player)
<1> DEFINE Good(c) == c.won => Online(c.player)
<1>1. completions \in Seq(Completions) /\ \A i \in DOMAIN completions : Good(completions[i])
  BY DEF TypeInv, TypeOK, BidInv, BiddersAreOnline
<1>2. \/ completions' = completions
      \/ completions # <<>> /\ completions' = Tail(completions)
      \/ \E c \in Completions : completions' = Append(completions, c) /\ Good(c)
  BY CompletionSteps DEF BidInv, BiddersAreOnline
<1> HIDE DEF Good
<1>3. ASSUME completions # <<>>, completions' = Tail(completions)
      PROVE  \A i \in DOMAIN completions' : Good(completions'[i])
  <2>1. \A i \in DOMAIN completions' :
            completions'[i] = completions[i + 1] /\ i + 1 \in DOMAIN completions
    BY <1>1, <1>3
  <2> QED
    BY <1>1, <2>1
<1>4. ASSUME NEW c \in Completions, completions' = Append(completions, c), Good(c)
      PROVE  \A i \in DOMAIN completions' : Good(completions'[i])
  BY <1>1, <1>4
<1>5. \A i \in DOMAIN completions' : Good(completions'[i])
  BY <1>1, <1>2, <1>3, <1>4
<1> QED
  BY <1>5 DEF Good

\* What remains of BidInv when the two queues are done.
DeskInv ==
    /\ bet # None => Online(bet.player) /\ 0 <= bet.seen.cost /\ bet.seen.cost <= bet.amount
    /\ stage = "offline" => ~Online(job.order.buyer) /\ ~Online(job.order.seller)
    /\ \A o \in OrderIds : Open(o) => orders[o].cost >= 0
    /\ ListedIsCurrent /\ SwapIsKnown

LEMMA DeskIsEnough ==
    ASSUME TypeInv, TypeInv', ClosedMarket, [Next]_vars, BidInv, DeskInv'
    PROVE  BidInv'
<1>1. \A q \in Players : Online(q)' <=> Online(q)
  BY OnlineStays
<1>2. \A i \in DOMAIN saves' : saves'[i].player \in Players
  <2>1. saves' \in Seq(SaveCommands)
    BY DEF TypeInv, TypeOK
  <2> QED
    BY <2>1, Kinds
<1>3. \A i \in DOMAIN completions' : completions'[i].player \in Players
  <2>1. completions' \in Seq(Completions) /\ \A c \in Completions : c.player \in Players
    BY DEF TypeInv, TypeOK, Completions
  <2> HIDE DEF Completions
  <2> QED
    BY <2>1
<1>4. \A i \in DOMAIN saves' : saves'[i].kind # "create" => entity'[saves'[i].player] # None
  BY <1>1, <1>2, QueueKeeps DEF Online
<1>5. \A i \in DOMAIN completions' : completions'[i].won => entity'[completions'[i].player] # None
  BY <1>1, <1>3, CompletionsKeep DEF Online
<1>6. \A i \in DOMAIN saves' : saves'[i].kind = "create" => saves'[i].cost >= 0
  BY QueueKeeps
<1> QED
  BY <1>4, <1>5, <1>6 DEF DeskInv, BidInv, BiddersAreOnline, PricesAreNat, Online

LEMMA DeskHolds ==
    ASSUME BidInv
    PROVE  DeskInv
BY DEF DeskInv, BidInv, BiddersAreOnline, PricesAreNat

LEMMA ListedIs ==
    ASSUME TypeInv, LotInv, NEW s \in Listed
    PROVE  /\ s \in Snapshots /\ s.id \in OrderIds /\ s.order.cost \in Int
           /\ Open(s.id) /\ orders[s.id] \in Orders /\ orders[s.id].cost \in Int
<1>1. s \in Snapshots /\ Open(s.id)
  BY JobIs DEF Listed, TypeInv, TypeOK, LotInv, ListedIsOpen
<1>2. s.id \in OrderIds /\ s.order.cost \in Int
  BY <1>1, SnapshotsAre
<1>3. orders[s.id] \in Orders
  BY <1>1, <1>2 DEF Open, TypeInv, TypeOK
<1> QED
  BY <1>1, <1>2, <1>3 DEF Orders

\* Each bid is at least the one before it.
LEMMA BidsRise ==
    ASSUME NEW r \in Orders, r.cost >= 0
    PROVE  min_bid(r) >= r.cost
<1> DEFINE n == r.cost
<1>1. n \in Nat
  BY DEF Orders
<1> HIDE DEF n
<1>2. -((-n * 101) \div 100) >= n
  BY <1>1
<1> QED
  BY <1>1, <1>2 DEF min_bid, n

LEMMA DeskAside ==
    ASSUME Inv, ClosedMarket, [Next]_vars, UNCHANGED <<orders, bet, finalVars, incidents>>
    PROVE  DeskInv'
<1>1. DeskInv /\ \A q \in Players : Online(q)' <=> Online(q)
  BY DeskHolds, OnlineStays DEF Inv
<1>2. bet # None => bet.player \in Players
  BY BetIs DEF Inv
<1>3. stage = "offline" => job.order.buyer \in Players /\ job.order.seller \in Players
  BY JobIs DEF Inv
<1>4. bet' # None => Online(bet.player)'
  BY <1>1, <1>2 DEF DeskInv, Online
<1>5. stage' = "offline" => ~Online(job.order.buyer)' /\ ~Online(job.order.seller)'
  BY <1>1, <1>3 DEF DeskInv, Online, finalVars
<1> QED
  BY <1>1, <1>4, <1>5
  DEF DeskInv, ListedIsCurrent, Listed, SwapIsKnown, Swapped, Open, finalVars

LEMMA DeskPersistCreate ==
    ASSUME Inv, ClosedMarket, [Next]_vars, PersistCreate
    PROVE  DeskInv'
<1>1. DeskInv /\ \A q \in Players : Online(q)' <=> Online(q)
  BY DeskHolds, OnlineStays DEF Inv
<1>2. bet' = None /\ UNCHANGED finalVars
  BY DEF PersistCreate
<1>3. stage' = "offline" => ~Online(job.order.buyer)' /\ ~Online(job.order.seller)'
  BY <1>1, <1>2, JobIs DEF DeskInv, Inv, Online, finalVars
<1>4. /\ created + 1 \in OrderIds /\ orders'[created + 1].cost >= 0
      /\ ~Open(created + 1) /\ \A o \in OrderIds : o # created + 1 => orders'[o] = orders[o]
  <2>1. /\ saves \in Seq(SaveCommands) /\ saves # <<>> /\ Request = saves[1]
        /\ Request.kind = "create" /\ 1 \in DOMAIN saves /\ created \in Nat
    BY DEF PersistCreate, Request, Inv, TypeInv, TypeOK
  <2>2. Request.cost >= 0
    BY <2>1 DEF Inv, BidInv, PricesAreNat
  <2>3. created + 1 \in OrderIds
    BY PersistCreateType DEF Inv
  <2>4. /\ orders'[created + 1].cost = Request.cost
        /\ \A o \in OrderIds : o # created + 1 => orders'[o] = orders[o]
    BY <2>3 DEF PersistCreate, Inv, TypeInv, TypeOK
  <2>5. ~Open(created + 1)
    BY <2>1, <2>3 DEF Inv, LotInv, FutureLots
  <2> QED
    BY <2>2, <2>3, <2>4, <2>5
<1>5. \A o \in OrderIds : Open(o)' => orders'[o].cost >= 0
  BY <1>1, <1>4 DEF DeskInv, Open
<1>6. Listed' = Listed /\ \A s \in Listed : s.id \in OrderIds /\ s.id # created + 1
  BY <1>2, <1>4, ListedIs DEF Listed, finalVars, Inv
<1>7. ListedIsCurrent'
  BY <1>1, <1>4, <1>6 DEF DeskInv, ListedIsCurrent
<1> QED
  BY <1>2, <1>3, <1>5, <1>7 DEF DeskInv, SwapIsKnown, Swapped

LEMMA DeskReadOrder ==
    ASSUME Inv, ClosedMarket, [Next]_vars, ReadOrder
    PROVE  DeskInv'
<1>1. UNCHANGED <<orders, finalVars, incidents>> /\ bet = None
  BY DEF ReadOrder, history
<1>2. CASE bet' = bet
  BY <1>1, <1>2, DeskAside
<1>3. CASE bet' # bet
  <2> DEFINE seen == orders[Request.id]
             amount == AmountOf(Request, seen)
  <2>1. /\ Open(Request.id) /\ Acceptable(Request, seen)
        /\ bet' = [step |-> "cas", player |-> Request.player, id |-> Request.id,
                   amount |-> amount, seen |-> seen]
    BY <1>3 DEF ReadOrder
  <2>2. /\ saves \in Seq(SaveCommands) /\ saves # <<>> /\ Request = saves[1]
        /\ Request.kind = "bet" /\ 1 \in DOMAIN saves /\ Request \in SaveCommands
    BY DEF ReadOrder, Request, Inv, TypeInv, TypeOK
  <2>3. Online(Request.player) /\ Request.id \in OrderIds /\ Request.player \in Players
        /\ Request.amount \in Int \cup {None}
    BY <2>2, Kinds DEF Inv, BidInv, BiddersAreOnline
  <2>4. seen \in Orders /\ seen.cost >= 0 /\ seen.cost \in Int
    BY <2>1, <2>3 DEF Open, Inv, TypeInv, TypeOK, BidInv, PricesAreNat, Orders
  <2>5. min_bid(seen) <= amount /\ min_bid(seen) >= seen.cost
    BY <2>1, <2>4, BidsRise DEF Acceptable
  <2>6. min_bid(seen) \in Int /\ amount \in Int
    BY <2>3, <2>4, MinBidIsInt DEF AmountOf
  <2> HIDE DEF seen, amount
  <2>7. /\ bet'.player = Request.player /\ bet'.seen.cost >= 0
        /\ bet'.seen.cost <= bet'.amount /\ bet'.step = "cas"
    BY <2>1, <2>4, <2>5, <2>6
  <2>8. Online(bet.player)'
    BY <2>3, <2>7, OnlineStays DEF Online, Inv
  <2>9. stage' = "offline" => ~Online(job.order.buyer)' /\ ~Online(job.order.seller)'
    BY <1>1, JobIs, OnlineStays DEF BidInv, BiddersAreOnline, Inv, Online, finalVars
  <2>10. /\ \A o \in OrderIds : Open(o)' => orders'[o].cost >= 0
         /\ ListedIsCurrent'
    BY <1>1 DEF Inv, BidInv, PricesAreNat, ListedIsCurrent, Listed, Open, finalVars
  <2>11. SwapIsKnown'
    BY <2>7 DEF SwapIsKnown, Swapped
  <2> QED
    BY <2>7, <2>8, <2>9, <2>10, <2>11 DEF DeskInv
<1> QED
  BY <1>2, <1>3

\* The worker writes a price that is no lower than what the finalizer listed.
LEMMA DeskBid ==
    ASSUME Inv, ClosedMarket, [Next]_vars, bet # None, UNCHANGED finalVars, Open(bet.id),
           NEW cost \in Int, NEW buyer \in Players \cup {None}, NEW fresh \in BOOLEAN, cost >= 0,
           orders' = [orders EXCEPT ![bet.id] = Rebid(@, cost, buyer, fresh)],
           \A s \in Listed : s.id = bet.id => s.order.cost <= cost
    PROVE  /\ \A o \in OrderIds : Open(o)' => orders'[o].cost >= 0
           /\ ListedIsCurrent' /\ Listed' = Listed
           /\ orders'[bet.id] = Rebid(orders[bet.id], cost, buyer, fresh)
           /\ bet.id \in OrderIds /\ orders[bet.id] \in Orders
           /\ \A o \in OrderIds : o # bet.id => orders'[o] = orders[o]
<1>1. bet.id \in OrderIds /\ orders[bet.id] \in Orders
  BY BetIs DEF Open, Inv, TypeInv, TypeOK
<1>2. /\ orders'[bet.id] = Rebid(orders[bet.id], cost, buyer, fresh)
      /\ \A o \in OrderIds : o # bet.id => orders'[o] = orders[o]
  BY <1>1 DEF Inv, TypeInv, TypeOK
<1>3. orders'[bet.id].cost = cost /\ orders'[bet.id].num = orders[bet.id].num
  BY <1>1, <1>2, RebidIs
<1>4. \A o \in OrderIds : Open(o)' => orders'[o].cost >= 0
  BY <1>2, <1>3 DEF Open, Inv, BidInv, PricesAreNat
<1>5. Listed' = Listed
  BY DEF Listed, finalVars
<1>6. ListedIsCurrent'
  <2> SUFFICES ASSUME NEW s \in Listed
               PROVE  orders'[s.id].num = s.order.num /\ s.order.cost <= orders'[s.id].cost
    BY <1>5 DEF ListedIsCurrent
  <2>1. orders[s.id].num = s.order.num /\ s.order.cost <= orders[s.id].cost /\ s.id \in OrderIds
    BY ListedIs DEF Inv, BidInv, ListedIsCurrent
  <2> QED
    BY <1>2, <1>3, <2>1
<1> QED
  BY <1>1, <1>2, <1>4, <1>5, <1>6

\* The parts of DeskInv about who is online, for a step of the worker that
\* keeps the bidder of its bid.
LEMMA DeskOnline ==
    ASSUME Inv, ClosedMarket, [Next]_vars, UNCHANGED finalVars,
           bet # None, bet' = None \/ bet'.player = bet.player
    PROVE  /\ bet' # None => Online(bet.player)'
           /\ stage' = "offline" => ~Online(job.order.buyer)' /\ ~Online(job.order.seller)'
<1>1. \A q \in Players : Online(q)' <=> Online(q)
  BY OnlineStays DEF Inv
<1>2. bet.player \in Players /\ Online(bet.player)
  BY BetIs DEF Inv, BidInv, BiddersAreOnline
<1>3. stage = "offline" => /\ job.order.buyer \in Players /\ job.order.seller \in Players
                           /\ ~Online(job.order.buyer) /\ ~Online(job.order.seller)
  BY JobIs DEF Inv, BidInv, BiddersAreOnline
<1>4. bet' # None => Online(bet.player)'
  BY <1>1, <1>2 DEF Online
<1> QED
  BY <1>1, <1>3, <1>4 DEF Online, finalVars

LEMMA DeskCasBet ==
    ASSUME Inv, ClosedMarket, [Next]_vars, CasBet
    PROVE  DeskInv'
<1>1. /\ bet # None /\ bet.step = "cas" /\ UNCHANGED <<finalVars, incidents>>
      /\ 0 <= bet.seen.cost /\ bet.seen.cost <= bet.amount
  BY DEF CasBet, history, Inv, BidInv, PricesAreNat
<1>2. /\ bet \in Bets /\ bet.player \in Players /\ bet.id \in OrderIds /\ bet.amount \in Int
      /\ bet.seen.buyer \in Players \cup {None} /\ bet.seen.cost \in Int
  BY <1>1, BetIs DEF Inv
<1>3. CASE ~Holds(bet.id, bet.seen.buyer, bet.seen.cost)
  <2>1. bet' = None /\ orders' = orders
    BY <1>3 DEF CasBet
  <2>2. stage' = "offline" => ~Online(job.order.buyer)' /\ ~Online(job.order.seller)'
    BY <1>1, <2>1, DeskOnline
  <2> QED
    BY <1>1, <2>1, <2>2
    DEF DeskInv, Inv, BidInv, PricesAreNat, ListedIsCurrent, Listed, SwapIsKnown, Swapped, Open,
        finalVars
<1>4. CASE Holds(bet.id, bet.seen.buyer, bet.seen.cost)
  <2>1. /\ orders' = [orders EXCEPT ![bet.id] = Rebid(@, bet.amount, bet.player, TRUE)]
        /\ Open(bet.id) /\ orders[bet.id].cost = bet.seen.cost
        /\ \/ bet' = None
           \/ bet.seen.buyer # None /\ bet' = [bet EXCEPT !.step = "refund"]
    BY <1>4 DEF CasBet, Holds
  <2>2. \A s \in Listed : s.id = bet.id =>
            s.order.cost <= bet.seen.cost /\ s.order.cost <= bet.amount
    BY <1>1, <1>2, <2>1, ListedIs DEF Inv, BidInv, ListedIsCurrent
  <2>3. bet.amount >= 0
    BY <1>1, <1>2
  <2>4. /\ \A o \in OrderIds : Open(o)' => orders'[o].cost >= 0
        /\ ListedIsCurrent' /\ Listed' = Listed
        /\ orders'[bet.id] = Rebid(orders[bet.id], bet.amount, bet.player, TRUE)
        /\ orders[bet.id] \in Orders
    BY <1>1, <1>2, <2>1, <2>2, <2>3, DeskBid
  <2>5. CASE bet' = None
    <3>1. stage' = "offline" => ~Online(job.order.buyer)' /\ ~Online(job.order.seller)'
      BY <1>1, <2>5, DeskOnline
    <3> QED
      BY <2>4, <2>5, <3>1 DEF DeskInv, SwapIsKnown, Swapped
  <2>6. CASE bet.seen.buyer # None /\ bet' = [bet EXCEPT !.step = "refund"]
    <3>1. /\ bet'.player = bet.player /\ bet'.id = bet.id /\ bet'.amount = bet.amount
          /\ bet'.seen = bet.seen
      BY <1>2, <2>6 DEF Bets
    <3>2. /\ bet' # None => Online(bet.player)'
          /\ stage' = "offline" => ~Online(job.order.buyer)' /\ ~Online(job.order.seller)'
      BY <1>1, <3>1, DeskOnline
    <3>3. /\ orders'[bet.id] # None /\ orders'[bet.id].buyer = bet.player
          /\ orders'[bet.id].cost = bet.amount
      <4> DEFINE o == orders[bet.id]
                 c == bet.amount
                 p == bet.player
                 t == TRUE
      <4>1. o \in Orders /\ c \in Int /\ p \in Players \cup {None} /\ t \in BOOLEAN
        BY <1>2, <2>4
      <4> HIDE DEF o, c, p, t
      <4>2. Rebid(o, c, p, t) # None /\ Rebid(o, c, p, t).buyer = p /\ Rebid(o, c, p, t).cost = c
        BY <4>1, RebidIs
      <4> QED
        BY <2>4, <4>2 DEF o, c, p, t
    <3>4. orders'[bet.id].fresh
      BY <1>2, <2>4 DEF Rebid, Orders
    <3>5. SwapIsKnown'
      BY <1>2, <2>2, <2>4, <2>6, <3>1, <3>3, <3>4 DEF SwapIsKnown, Swapped, Open
    <3> QED
      BY <1>1, <2>4, <3>1, <3>2, <3>5 DEF DeskInv
  <2> QED
    BY <2>1, <2>5, <2>6
<1> QED
  BY <1>3, <1>4

LEMMA DeskRefund ==
    ASSUME Inv, ClosedMarket, [Next]_vars, RefundPrevious \/ RefundFails
    PROVE  DeskInv'
<1>1. /\ bet # None /\ bet.step # "cas" /\ UNCHANGED <<orders, finalVars, incidents>>
      /\ bet' = None \/ bet' = [bet EXCEPT !.step = "rollback"]
  BY DEF RefundPrevious, RefundFails, history
<1>2. bet' = None \/ (/\ bet'.player = bet.player /\ bet'.id = bet.id
                      /\ bet'.amount = bet.amount /\ bet'.seen = bet.seen)
  BY <1>1, BetIs DEF Bets, Inv
<1>3. /\ bet' # None => Online(bet.player)'
      /\ stage' = "offline" => ~Online(job.order.buyer)' /\ ~Online(job.order.seller)'
  BY <1>1, <1>2, DeskOnline
<1>4. /\ \A o \in OrderIds : Open(o)' => orders'[o].cost >= 0
      /\ ListedIsCurrent' /\ Listed' = Listed
  BY <1>1 DEF Inv, BidInv, PricesAreNat, ListedIsCurrent, Listed, Open, finalVars
<1>5. SwapIsKnown'
  BY <1>1, <1>2, <1>4 DEF Inv, BidInv, SwapIsKnown, Swapped, Open
<1>6. bet' # None => 0 <= bet'.seen.cost /\ bet'.seen.cost <= bet'.amount
  BY <1>1, <1>2 DEF Inv, BidInv, PricesAreNat
<1> QED
  BY <1>3, <1>4, <1>5, <1>6 DEF DeskInv

LEMMA DeskRollback ==
    ASSUME Inv, ClosedMarket, [Next]_vars, RollbackBet
    PROVE  DeskInv'
<1>1. bet # None /\ Swapped /\ bet' = None /\ UNCHANGED finalVars
  BY DEF RollbackBet, Swapped
<1>2. stage' = "offline" => ~Online(job.order.buyer)' /\ ~Online(job.order.seller)'
  BY <1>1, DeskOnline
<1>3. CASE UNCHANGED orders
  BY <1>1, <1>2, <1>3
  DEF DeskInv, Inv, BidInv, PricesAreNat, ListedIsCurrent, Listed, SwapIsKnown, Swapped, Open,
      finalVars
<1>4. CASE /\ Holds(bet.id, bet.player, bet.amount)
           /\ orders' = [orders EXCEPT ![bet.id] =
                  Rebid(@, bet.seen.cost, bet.seen.buyer, bet.seen.fresh)]
  <2>1. /\ \A s \in Listed : s.id = bet.id => s.order.cost <= bet.seen.cost
        /\ bet.seen.cost >= 0 /\ Open(bet.id)
    BY <1>1, <1>4, BetIs DEF Inv, BidInv, SwapIsKnown, PricesAreNat, Holds
  <2>2. /\ bet.seen.cost \in Int /\ bet.seen.buyer \in Players \cup {None}
        /\ bet.seen.fresh \in BOOLEAN
    BY <1>1, BetIs DEF Inv
  <2>3. /\ \A o \in OrderIds : Open(o)' => orders'[o].cost >= 0
        /\ ListedIsCurrent'
    BY <1>1, <1>4, <2>1, <2>2, DeskBid
  <2> QED
    BY <1>1, <1>2, <2>3 DEF DeskInv, SwapIsKnown, Swapped
<1> QED
  BY <1>3, <1>4 DEF RollbackBet

LEMMA DeskRipen ==
    ASSUME Inv, ClosedMarket, [Next]_vars, NEW o \in OrderIds, Ripen(o)
    PROVE  DeskInv'
<1>1. /\ Open(o) /\ orders' = [orders EXCEPT ![o] = [@ EXCEPT !.fresh = FALSE]]
      /\ UNCHANGED <<bet, finalVars, incidents, entity>> /\ (bet # None => bet.id # o)
  BY DEF Ripen, workerVars, history, gameVars
<1>2. orders[o] \in Orders
  BY <1>1 DEF Open, Inv, TypeInv, TypeOK
<1>3. /\ orders'[o] # None /\ orders'[o].cost = orders[o].cost /\ orders'[o].num = orders[o].num
      /\ \A x \in OrderIds : x # o => orders'[x] = orders[x]
  BY <1>1, <1>2, RipeIs DEF Inv, TypeInv, TypeOK
<1>4. \A x \in OrderIds : Open(x)' => orders'[x].cost >= 0
  BY <1>1, <1>3 DEF Open, Inv, BidInv, PricesAreNat
<1>5. Listed' = Listed
  BY <1>1 DEF Listed, finalVars
<1>6. ListedIsCurrent'
  BY <1>3, <1>5, ListedIs DEF Inv, BidInv, ListedIsCurrent
<1>7. SwapIsKnown'
  <2>1. bet # None => bet.id \in OrderIds /\ orders'[bet.id] = orders[bet.id]
    BY <1>1, <1>3, BetIs DEF Inv
  <2> QED
    BY <1>1, <1>5, <2>1 DEF Inv, BidInv, SwapIsKnown, Swapped, Open
<1> QED
  BY <1>1, <1>4, <1>6, <1>7 DEF DeskInv, Inv, BidInv, BiddersAreOnline, PricesAreNat, Online,
     finalVars

LEMMA DeskListReady ==
    ASSUME Inv, ClosedMarket, [Next]_vars, ListReady
    PROVE  DeskInv'
<1>1. /\ UNCHANGED <<orders, bet, job, stage, incidents, entity>> /\ stage = "idle"
      /\ todo' = list_ready_orders
  BY DEF ListReady, workerVars, history, gameVars
<1>2. ASSUME NEW s \in Listed'
      PROVE  /\ s.id \in OrderIds /\ s.order = orders[s.id] /\ Open(s.id) /\ ~orders[s.id].fresh
  <2>1. s \in list_ready_orders
    BY <1>1 DEF Listed
  <2>2. PICK o \in OrderIds : /\ Open(o) /\ ~orders[o].fresh
                              /\ s = [id |-> o, order |-> orders[o]]
    BY <2>1 DEF list_ready_orders
  <2> QED
    BY <2>2
<1>3. ListedIsCurrent'
  <2>1. \A s \in Listed' : orders[s.id].cost \in Int
    BY <1>2 DEF Open, Inv, TypeInv, TypeOK, Orders
  <2> QED
    BY <1>1, <1>2, <2>1 DEF ListedIsCurrent
<1>4. SwapIsKnown'
  <2>1. \A s \in Listed' : Swapped => s.id # bet.id
    BY <1>2 DEF Inv, BidInv, SwapIsKnown
  <2> QED
    BY <1>1, <2>1 DEF Inv, BidInv, SwapIsKnown, Swapped, Open
<1> QED
  BY <1>1, <1>3, <1>4 DEF DeskInv, Inv, BidInv, BiddersAreOnline, PricesAreNat, Online, Open

LEMMA DeskBeginFinalize ==
    ASSUME Inv, ClosedMarket, [Next]_vars, NEW s \in todo, BeginFinalize(s)
    PROVE  DeskInv'
<1>1. /\ UNCHANGED <<orders, bet, incidents, entity>> /\ stage = "idle"
      /\ todo' = todo \ {s} /\ job' = s
      /\ stage' = IF Online(s.order.buyer) \/ Online(s.order.seller) THEN "seller" ELSE "offline"
  BY DEF BeginFinalize, workerVars, history, gameVars
<1>2. Listed' \subseteq Listed
  BY <1>1 DEF Listed
<1>3. ListedIsCurrent' /\ SwapIsKnown'
  BY <1>1, <1>2 DEF Inv, BidInv, ListedIsCurrent, SwapIsKnown, Swapped, Open
<1> QED
  BY <1>1, <1>3 DEF DeskInv, Inv, BidInv, BiddersAreOnline, PricesAreNat, Online, Open

\* The finalizer goes on with its lot or gives it up, and no lot changes.
LEMMA DeskInHand ==
    ASSUME Inv, ClosedMarket, [Next]_vars, UNCHANGED <<orders, bet, todo>>,
           incidents \subseteq incidents', stage # "idle", stage' # "offline",
           stage' = "idle" \/ job' = job
    PROVE  DeskInv'
<1>1. Listed' \subseteq Listed
  BY DEF Listed
<1>2. ListedIsCurrent' /\ SwapIsKnown'
  BY <1>1 DEF Inv, BidInv, ListedIsCurrent, SwapIsKnown, Swapped, Open
<1>3. bet' # None => Online(bet.player)'
  BY BetIs, OnlineStays DEF Inv, BidInv, BiddersAreOnline, Online
<1> QED
  BY <1>2, <1>3 DEF DeskInv, Inv, BidInv, PricesAreNat, Open

\* The finalizer deletes its lot.
LEMMA DeskRemove ==
    ASSUME Inv, ClosedMarket, [Next]_vars, UNCHANGED <<bet, todo>>, stage # "idle",
           stage' = "idle", Remove(job)
    PROVE  DeskInv'
<1>1. /\ job \in Snapshots /\ job.id \in OrderIds /\ job \in Listed
      /\ job.order.buyer \in Players /\ job.order.cost \in Int
  BY JobIs DEF Inv, Listed
<1>2. /\ orders'[job.id] = None /\ \A x \in OrderIds : x # job.id => orders'[x] = orders[x]
  BY <1>1 DEF Remove, Inv, TypeInv, TypeOK
<1>3. /\ incidents' = {} => incidents = {} /\ Holds(job.id, job.order.buyer, job.order.cost)
  BY DEF Remove, Record
<1>4. Listed' = todo /\ \A s \in todo : s \in Listed /\ s.id \in OrderIds /\ s.id # job.id
  <2>1. Listed' = todo /\ \A s \in todo : s \in Listed /\ s.id # job.id
    BY DEF Listed, Inv, LotInv, ListedIsOpen
  <2> QED
    BY <2>1, ListedIs DEF Inv
<1>5. ListedIsCurrent'
  BY <1>2, <1>4 DEF Inv, BidInv, ListedIsCurrent
<1>6. bet' # None => Online(bet.player)'
  BY BetIs, OnlineStays DEF Inv, BidInv, BiddersAreOnline, Online
<1>7. SwapIsKnown'
  <2> SUFFICES ASSUME Swapped
               PROVE  /\ bet.seen.buyer \in Players
                      /\ orders'[bet.id] # None => /\ orders'[bet.id].buyer = bet.player
                                                   /\ orders'[bet.id].cost = bet.amount
                                                   /\ orders'[bet.id].fresh
                      /\ \A s \in Listed' : s.id = bet.id => s.order.cost <= bet.seen.cost
                      /\ orders'[bet.id] = None /\ incidents' = {} => bet.amount = bet.seen.cost
    BY DEF SwapIsKnown, Swapped, Open
  <2>1. /\ bet.id \in OrderIds /\ bet.amount \in Int /\ bet.seen.cost \in Int
        /\ bet.seen.cost <= bet.amount
    BY BetIs DEF Swapped, Inv, BidInv, PricesAreNat
  <2>2. /\ bet.seen.buyer \in Players
        /\ Open(bet.id) => /\ orders[bet.id].buyer = bet.player
                           /\ orders[bet.id].cost = bet.amount /\ orders[bet.id].fresh
        /\ \A s \in Listed : s.id = bet.id => s.order.cost <= bet.seen.cost
        /\ ~Open(bet.id) /\ incidents = {} => bet.amount = bet.seen.cost
    BY DEF Inv, BidInv, SwapIsKnown
  <2>3. CASE bet.id # job.id
    BY <1>2, <1>3, <1>4, <2>1, <2>2, <2>3 DEF Open
  <2>4. CASE bet.id = job.id
    <3>1. incidents' = {} => job.order.cost = bet.amount /\ job.order.cost <= bet.seen.cost
      BY <1>1, <1>3, <2>2, <2>4 DEF Holds
    <3>2. incidents' = {} => bet.amount = bet.seen.cost
      BY <1>1, <2>1, <3>1
    <3> QED
      BY <1>2, <1>4, <2>2, <2>4, <3>2
  <2> QED
    BY <2>3, <2>4
<1>8. \A x \in OrderIds : Open(x)' => orders'[x].cost >= 0
  BY <1>2 DEF Open, Inv, BidInv, PricesAreNat
<1> QED
  BY <1>5, <1>6, <1>7, <1>8 DEF DeskInv, Inv, BidInv, PricesAreNat

\* The steps that touch neither the lots nor the desks of the worker and of
\* the finalizer, and those that do.
LEMMA StepKinds ==
    ASSUME ClosedMarket, [Next]_vars
    PROVE  \/ UNCHANGED <<orders, bet, finalVars, handed, incidents>>
           \/ PersistCreate \/ ReadOrder \/ CasBet \/ RefundPrevious \/ RefundFails \/ RollbackBet
           \/ ListReady \/ FinalizeOffline \/ CreditSeller \/ CreditBuyer \/ RevokeSeller
           \/ DeleteOrder \/ (\E s \in todo : BeginFinalize(s)) \/ (\E o \in OrderIds : Ripen(o))
BY DEF ClosedMarket, Next, PlayerStep, WorkerStep, FinalizeStep, SetNum, AuctionBet, Logout,
       Login, PersistPlayer, ApplyCompletion, FlushDirty, vars, workerVars, history

LEMMA BidStep == Inv /\ ClosedMarket /\ [Next]_vars => BidInv'
<1> SUFFICES ASSUME Inv, ClosedMarket, [Next]_vars PROVE DeskInv'
  BY TypeStep, DeskIsEnough DEF Inv
<1>1. CASE UNCHANGED <<orders, bet, finalVars, handed, incidents>>
  BY <1>1, DeskAside
<1>2. CASE FinalizeOffline
  <2>1. stage = "offline" /\ stage' = "idle" /\ UNCHANGED <<bet, todo>>
    BY <1>2 DEF FinalizeOffline, Finish, workerVars
  <2>2. Remove(job) \/ UNCHANGED <<orders, incidents>>
    BY <1>2 DEF FinalizeOffline, history
  <2> QED
    BY <2>1, <2>2, DeskRemove, DeskInHand
<1>3. CASE CreditSeller \/ CreditBuyer \/ RevokeSeller
  <2>1. /\ UNCHANGED <<orders, bet, todo>> /\ incidents \subseteq incidents'
        /\ stage # "idle" /\ stage' # "offline" /\ (stage' = "idle" \/ job' = job)
    BY <1>3 DEF CreditSeller, CreditBuyer, RevokeSeller, Finish, Record, workerVars, history
  <2> QED
    BY <2>1, DeskInHand
<1>4. CASE DeleteOrder
  <2>1. stage = "delete" /\ stage' = "idle" /\ UNCHANGED <<bet, todo>>
    BY <1>4 DEF DeleteOrder, Finish, workerVars
  <2>2. Remove(job) \/ (UNCHANGED orders /\ incidents \subseteq incidents')
    BY <1>4 DEF DeleteOrder, Record
  <2> QED
    BY <2>1, <2>2, DeskRemove, DeskInHand
<1> QED
  BY <1>1, <1>2, <1>3, <1>4, StepKinds, DeskPersistCreate, DeskReadOrder, DeskCasBet, DeskRefund,
     DeskRollback, DeskListReady, DeskBeginFinalize, DeskRipen

LEMMA BidAlways == ClosedMarket => (Spec => []Inv)
<1>1. Inv /\ ClosedMarket /\ [Next]_vars => Inv'
  BY TypeStep, LotStep, BidStep DEF Inv
<1>2. Init /\ ClosedMarket => Inv
  BY TypeInit, LotInit, BidInit DEF Inv
<1> SUFFICES ASSUME ClosedMarket PROVE Spec => []Inv
  OBVIOUS
<1>3. Inv /\ [Next]_vars => Inv'
  BY <1>1
<1>4. Init => Inv
  BY <1>2
<1> QED
  BY <1>3, <1>4, PTL DEF Spec
------------------------------------------------------------------------------
\* SumFunction, from the facts about SumFunctionOnSet.
LEMMA SumOfInts ==
    ASSUME NEW S, IsFiniteSet(S), NEW f \in [S -> Int]
    PROVE  SumFunction(f) = SumFunctionOnSet(f, S) /\ SumFunction(f) \in Int
<1>1. SumFunction(f) = SumFunctionOnSet(f, S)
  BY DEF SumFunction
<1> QED
  BY <1>1, SumIsInt

LEMMA SumOfUpdate ==
    ASSUME NEW S, IsFiniteSet(S), NEW f \in [S -> Int], NEW h \in [S -> Int], NEW a \in S,
           \A x \in S \ {a} : h[x] = f[x]
    PROVE  SumFunction(h) = SumFunction(f) + (h[a] - f[a])
BY SumOfInts, SumUpdate

LEMMA SumOfLine ==
    ASSUME NEW n \in Nat, NEW f \in [1..n -> Int]
    PROVE  SumFunction(f) \in Int
<1>1. IsFiniteSet(1..n)
  BY FS_Interval
<1> QED
  BY <1>1, SumOfInts

LEMMA SumOfAppend ==
    ASSUME NEW n \in Nat, NEW f \in [1..n -> Int], NEW h \in [1..(n + 1) -> Int],
           \A i \in 1..n : h[i] = f[i]
    PROVE  SumFunction(h) = SumFunction(f) + h[n + 1]
<1>1. IsFiniteSet(1..n) /\ IsFiniteSet(1..(n + 1))
  BY FS_Interval
<1>2. SumFunction(h) = SumFunctionOnSet(h, 1..(n + 1)) /\ SumFunction(f) = SumFunctionOnSet(f, 1..n)
  BY <1>1, SumOfInts
<1>3. SumFunctionOnSet(h, 1..(n + 1)) = SumFunctionOnSet(h, 1..n) + h[n + 1]
  BY SumLast
<1>4. SumFunctionOnSet(h, 1..n) = SumFunctionOnSet(f, 1..n)
  BY <1>1, SumCong
<1> QED
  BY <1>2, <1>3, <1>4

LEMMA SumOfTail ==
    ASSUME NEW n \in Nat, NEW f \in [1..(n + 1) -> Int], NEW h \in [1..n -> Int],
           \A i \in 1..n : h[i] = f[i + 1]
    PROVE  SumFunction(f) = f[1] + SumFunction(h)
<1>1. IsFiniteSet(1..n) /\ IsFiniteSet(1..(n + 1))
  BY FS_Interval
<1>2. SumFunction(f) = SumFunctionOnSet(f, 1..(n + 1)) /\ SumFunction(h) = SumFunctionOnSet(h, 1..n)
  BY <1>1, SumOfInts
<1> QED
  BY <1>2, SumFirst

LEMMA SumOfConst ==
    ASSUME NEW S, IsFiniteSet(S), NEW c \in Int
    PROVE  SumFunction([x \in S |-> c]) = c * Cardinality(S)
<1> DEFINE f == [x \in S |-> c]
           G == {n \in Nat : \A s \in Small(S, n) : SumFunctionOnSet(f, s) = c * Cardinality(s)}
<1>1. 0 \in G
  BY SmallIsEmpty, SumEmpty, FS_EmptySet
<1>2. ASSUME NEW n \in Nat, n \in G PROVE n + 1 \in G
  <2> SUFFICES ASSUME NEW s \in Small(S, n + 1)
               PROVE  SumFunctionOnSet(f, s) = c * Cardinality(s)
    OBVIOUS
  <2>1. IsFiniteSet(s) /\ s \subseteq S /\ Cardinality(s) \in Nat
    BY FS_Subset, FS_CardinalityType DEF Small
  <2>2. CASE s = {}
    BY <2>2, SumEmpty, FS_EmptySet
  <2>3. CASE s # {}
    <3>1. SumFunctionOnSet(f, s) = f[Pick(s)] + SumFunctionOnSet(f, s \ {Pick(s)})
      BY <2>1, <2>3, SumPick
    <3>2. Pick(s) \in s /\ f[Pick(s)] = c
      BY <2>1, <2>3, PickIs
    <3>3. SumFunctionOnSet(f, s \ {Pick(s)}) = c * Cardinality(s \ {Pick(s)})
      BY <1>2, <3>2, Smaller
    <3>4. Cardinality(s \ {Pick(s)}) = Cardinality(s) - 1
      BY <2>1, <3>2, FS_RemoveElement
    <3> DEFINE k == Cardinality(s)
    <3>5. SumFunctionOnSet(f, s) = c + c * (k - 1) /\ k \in Nat
      BY <2>1, <3>1, <3>2, <3>3, <3>4
    <3> HIDE DEF k
    <3>6. c + c * (k - 1) = c * k
      BY <3>5
    <3> QED
      BY <3>5, <3>6 DEF k
  <2> QED
    BY <2>2, <2>3
<1>3. Cardinality(S) \in G
  <2>1. Cardinality(S) \in Nat
    BY FS_CardinalityType
  <2> HIDE DEF G
  <2> QED
    BY <1>1, <1>2, <2>1, Induction
<1>4. SumFunctionOnSet(f, S) = c * Cardinality(S)
  BY <1>3, SmallIsAll
<1>5. f \in [S -> Int]
  OBVIOUS
<1> HIDE DEF f
<1>6. SumFunction(f) = SumFunctionOnSet(f, S)
  BY <1>5, SumOfInts
<1> QED
  BY <1>4, <1>6 DEF f
------------------------------------------------------------------------------
\* The wealth of all players, and what it adds up to.
Wealths == [p \in Players |-> WealthOf(p)]
MoneySum(w) == SumFunction([p \in Players |-> w[p].money])
ItemSum(w) == SumFunction([p \in Players |-> w[p].items])

LEMMA WealthsAre ==
    TypeInv => /\ Wealths \in [Players -> Wealth]
               /\ Purses = [p \in Players |-> Wealths[p].money]
               /\ Inventories = [p \in Players |-> Wealths[p].items]
               /\ SumFunction(Purses) = MoneySum(Wealths)
               /\ SumFunction(Inventories) = ItemSum(Wealths)
<1> SUFFICES ASSUME TypeInv
             PROVE  /\ Wealths \in [Players -> Wealth]
                    /\ Purses = [p \in Players |-> Wealths[p].money]
                    /\ Inventories = [p \in Players |-> Wealths[p].items]
  BY DEF MoneySum, ItemSum
<1>1. Wealths \in [Players -> Wealth]
  BY DEF Wealths, WealthOf, Online, TypeInv, TypeOK
<1> QED
  BY <1>1 DEF Wealths, Purses, Inventories, MoneyOf, ItemsOf

LEMMA WealthSums ==
    ASSUME NEW w \in [Players -> Wealth]
    PROVE  MoneySum(w) \in Int /\ ItemSum(w) \in Int
<1>1. [p \in Players |-> w[p].money] \in [Players -> Int]
  BY DEF Wealth
<1>2. [p \in Players |-> w[p].items] \in [Players -> Int]
  BY DEF Wealth
<1> QED
  BY <1>1, <1>2, SumOfInts, PlayersAssumption DEF MoneySum, ItemSum

LEMMA EarnSum ==
    ASSUME NEW w \in [Players -> Wealth], NEW p \in Players, NEW n \in Int
    PROVE  /\ [w EXCEPT ![p] = Earn(@, n)] \in [Players -> Wealth]
           /\ MoneySum([w EXCEPT ![p] = Earn(@, n)]) = MoneySum(w) + n
           /\ ItemSum([w EXCEPT ![p] = Earn(@, n)]) = ItemSum(w)
<1> DEFINE v == [w EXCEPT ![p] = Earn(@, n)]
           f == [q \in Players |-> w[q].money]
           h == [q \in Players |-> v[q].money]
<1>1. /\ Earn(w[p], n) \in Wealth /\ Earn(w[p], n).money = w[p].money + n
      /\ Earn(w[p], n).items = w[p].items
  BY EarnIs
<1>2. v \in [Players -> Wealth] /\ v[p] = Earn(w[p], n) /\ \A q \in Players \ {p} : v[q] = w[q]
  BY <1>1
<1> HIDE DEF v
<1>3. \A q \in Players : v[q].items = w[q].items
  BY <1>1, <1>2
<1>4. [q \in Players |-> v[q].items] = [q \in Players |-> w[q].items]
  BY <1>3
<1>5. /\ f \in [Players -> Int] /\ h \in [Players -> Int] /\ h[p] = f[p] + n
      /\ \A q \in Players \ {p} : h[q] = f[q]
  BY <1>1, <1>2 DEF Wealth
<1> HIDE DEF f, h
<1>6. SumFunction(h) = SumFunction(f) + n /\ SumFunction(f) \in Int
  BY <1>5, SumOfUpdate, SumOfInts, PlayersAssumption
<1> QED
  BY <1>2, <1>4, <1>6 DEF MoneySum, ItemSum, f, h, v

LEMMA ReceiveSum ==
    ASSUME NEW w \in [Players -> Wealth], NEW p \in Players, NEW n \in Int
    PROVE  /\ [w EXCEPT ![p] = Receive(@, n)] \in [Players -> Wealth]
           /\ MoneySum([w EXCEPT ![p] = Receive(@, n)]) = MoneySum(w)
           /\ ItemSum([w EXCEPT ![p] = Receive(@, n)]) = ItemSum(w) + n
<1> DEFINE v == [w EXCEPT ![p] = Receive(@, n)]
           f == [q \in Players |-> w[q].items]
           h == [q \in Players |-> v[q].items]
<1>1. /\ Receive(w[p], n) \in Wealth /\ Receive(w[p], n).items = w[p].items + n
      /\ Receive(w[p], n).money = w[p].money
  BY ReceiveIs
<1>2. v \in [Players -> Wealth] /\ v[p] = Receive(w[p], n) /\ \A q \in Players \ {p} : v[q] = w[q]
  BY <1>1
<1> HIDE DEF v
<1>3. \A q \in Players : v[q].money = w[q].money
  BY <1>1, <1>2
<1>4. [q \in Players |-> v[q].money] = [q \in Players |-> w[q].money]
  BY <1>3
<1>5. /\ f \in [Players -> Int] /\ h \in [Players -> Int] /\ h[p] = f[p] + n
      /\ \A q \in Players \ {p} : h[q] = f[q]
  BY <1>1, <1>2 DEF Wealth
<1> HIDE DEF f, h
<1>6. SumFunction(h) = SumFunction(f) + n /\ SumFunction(f) \in Int
  BY <1>5, SumOfUpdate, SumOfInts, PlayersAssumption
<1> QED
  BY <1>2, <1>4, <1>6 DEF MoneySum, ItemSum, f, h, v

\* What the steps do to the wealth of the players.
LEMMA WealthKept ==
    ASSUME UNCHANGED <<entity, rows>>
    PROVE  Wealths' = Wealths
BY DEF Wealths, WealthOf, Online

LEMMA WealthCreditMoney ==
    ASSUME TypeInv, NEW p \in Players, NEW n \in Int, CreditMoney(p, n)
    PROVE  Wealths' = [Wealths EXCEPT ![p] = Earn(@, n)]
<1>1. entity \in [Players -> Wealth \cup {None}] /\ rows \in [Players -> Wealth]
  BY DEF TypeInv, TypeOK
<1>2. CASE Online(p)
  <2>1. rows' = rows /\ entity' = Pay(entity, p, n)
    BY <1>2 DEF CreditMoney
  <2>2. /\ \A q \in Players : entity'[q] # None <=> entity[q] # None
        /\ \A q \in Players : q # p => entity'[q] = entity[q]
        /\ entity'[p] = Earn(entity[p], n)
    BY <1>1, <1>2, <2>1, PayIs DEF Online
  <2> QED
    BY <1>2, <2>1, <2>2 DEF Wealths, WealthOf, Online
<1>3. CASE ~Online(p)
  BY <1>1, <1>3 DEF CreditMoney, gameVars, Wealths, WealthOf, Online
<1> QED
  BY <1>2, <1>3

LEMMA WealthCreditItems ==
    ASSUME TypeInv, NEW p \in Players, NEW n \in Int, CreditItems(p, n)
    PROVE  Wealths' = [Wealths EXCEPT ![p] = Receive(@, n)]
<1>1. entity \in [Players -> Wealth \cup {None}] /\ rows \in [Players -> Wealth]
  BY DEF TypeInv, TypeOK
<1>2. CASE Online(p)
  <2>1. Receive(entity[p], n) # None
    BY <1>1, <1>2, ReceiveIs DEF Online
  <2> QED
    BY <1>1, <1>2, <2>1 DEF CreditItems, Wealths, WealthOf, Online
<1>3. CASE ~Online(p)
  BY <1>1, <1>3 DEF CreditItems, gameVars, Wealths, WealthOf, Online
<1> QED
  BY <1>2, <1>3

LEMMA WealthSetNum ==
    ASSUME TypeInv, NEW p \in Players, NEW num \in 1..StartItems, NEW cost \in Costs,
           SetNum(p, num, cost)
    PROVE  Wealths' = [Wealths EXCEPT ![p] = Receive(@, -num)]
<1>1. entity \in [Players -> Wealth \cup {None}] /\ Online(p) /\ -num \in Int
  BY WealthAssumption DEF SetNum, TypeInv, TypeOK
<1>2. Receive(entity[p], -num) # None
  BY <1>1, ReceiveIs DEF Online
<1> QED
  BY <1>1, <1>2 DEF SetNum, Wealths, WealthOf, Online

\* A save of an online player changes a row that does not count.
LEMMA WealthPersistPlayer ==
    ASSUME TypeInv, BidInv, PersistPlayer
    PROVE  Wealths' = Wealths
<1>1. /\ saves \in Seq(SaveCommands) /\ saves # <<>> /\ Request = saves[1]
      /\ Request.kind = "player" /\ 1 \in DOMAIN saves /\ rows \in [Players -> Wealth]
  BY DEF PersistPlayer, Request, TypeInv, TypeOK
<1>2. Online(Request.player)
  BY <1>1 DEF BidInv, BiddersAreOnline
<1> QED
  BY <1>1, <1>2 DEF PersistPlayer, gameVars, Wealths, WealthOf, Online

LEMMA WealthRefund ==
    ASSUME TypeInv, RefundPrevious, bet.seen.buyer \in Players
    PROVE  Wealths' = IF Online(bet.seen.buyer)
                      THEN Wealths
                      ELSE [Wealths EXCEPT ![bet.seen.buyer] = Earn(@, bet.seen.cost)]
BY DEF RefundPrevious, gameVars, Wealths, WealthOf, Online, TypeInv, TypeOK

LEMMA WealthOffline ==
    ASSUME TypeInv, NEW s \in Snapshots, s.order.buyer \in Players,
           ~Online(s.order.buyer), ~Online(s.order.seller),
           rows' = CreditedOffline(s), UNCHANGED entity
    PROVE  Wealths' = [[Wealths EXCEPT ![s.order.buyer] = Receive(@, s.order.num)]
                                EXCEPT ![s.order.seller] = Earn(@, s.order.cost)]
<1>1. s.order.seller \in Players /\ rows \in [Players -> Wealth]
  BY SnapshotsAre DEF TypeInv, TypeOK
<1> DEFINE b == s.order.buyer
           v == s.order.seller
           one == [rows EXCEPT ![b] = Receive(@, s.order.num)]
           two == [Wealths EXCEPT ![b] = Receive(@, s.order.num)]
<1>2. rows' = [one EXCEPT ![v] = Earn(@, s.order.cost)]
  BY DEF CreditedOffline
<1>3. /\ DOMAIN one = Players /\ DOMAIN two = Players
      /\ \A q \in Players : two[q] = IF Online(q) THEN entity[q] ELSE one[q]
  BY <1>1 DEF Wealths, WealthOf
<1> HIDE DEF one, two
<1>4. Wealths' = [q \in Players |-> IF Online(q) THEN entity[q] ELSE rows'[q]]
  BY DEF Wealths, WealthOf, Online
<1>5. Wealths' = [two EXCEPT ![v] = Earn(@, s.order.cost)]
  BY ZenonT(30), <1>1, <1>2, <1>3, <1>4
<1> QED
  BY <1>5 DEF two

\* A completion charges the bidder and credits the outbid buyer, if online.
LEMMA WealthCompletion ==
    ASSUME TypeInv, BidInv, ApplyCompletion
    PROVE  LET c == Head(completions)
               charged == [Wealths EXCEPT ![c.player] = Earn(@, -c.amount)]
           IN  /\ c \in Completions /\ c.player \in Players /\ c.amount \in Int /\ c.refund \in Int
               /\ ~c.won => Wealths' = Wealths
               /\ c.won => Wealths' = IF c.previous # None /\ Online(c.previous)
                                      THEN [charged EXCEPT ![c.previous] = Earn(@, c.refund)]
                                      ELSE charged
               /\ c.previous # None => c.previous \in Players
<1> DEFINE c == Head(completions)
           paid == Pay(entity, c.player, -c.amount)
           charged == [Wealths EXCEPT ![c.player] = Earn(@, -c.amount)]
<1>1. /\ completions # <<>> /\ completions \in Seq(Completions) /\ rows' = rows
      /\ entity \in [Players -> Wealth \cup {None}] /\ rows \in [Players -> Wealth]
      /\ c = completions[1] /\ 1 \in DOMAIN completions
  BY DEF ApplyCompletion, TypeInv, TypeOK
<1>2. c \in Completions /\ (c.won => Online(c.player))
  BY <1>1 DEF BidInv, BiddersAreOnline
<1>3. /\ c.player \in Players /\ c.amount \in Int /\ c.previous \in Players \cup {None}
      /\ c.refund \in Int
  BY <1>2 DEF Completions
<1>4. CASE ~c.won
  <2>1. UNCHANGED <<entity, rows>>
    BY <1>1, <1>4 DEF ApplyCompletion, gameVars
  <2> QED
    BY <1>2, <1>3, <1>4, <2>1, WealthKept
<1>5. CASE c.won
  <2>1. entity' = IF c.previous # None THEN Pay(paid, c.previous, c.refund) ELSE paid
    BY <1>5 DEF ApplyCompletion
  <2> HIDE DEF c
  <2>2. /\ paid \in [Players -> Wealth \cup {None}]
        /\ \A q \in Players : paid[q] # None <=> Online(q)
        /\ \A q \in Players : q # c.player => paid[q] = entity[q]
        /\ paid[c.player] = Earn(entity[c.player], -c.amount)
    BY <1>1, <1>2, <1>3, <1>5, PayIs DEF Online
  <2> HIDE DEF paid
  <2>3. charged = [q \in Players |-> IF Online(q) THEN paid[q] ELSE rows[q]]
    BY <1>1, <1>2, <1>3, <1>5, <2>2 DEF Wealths, WealthOf
  <2> HIDE DEF charged
  <2>4. CASE c.previous = None
    BY <1>1, <1>2, <1>3, <1>5, <2>1, <2>2, <2>3, <2>4 DEF Wealths, WealthOf, Online, c, charged
  <2>5. CASE c.previous # None
    <3>1. /\ c.previous \in Players /\ entity' = Pay(paid, c.previous, c.refund)
      BY <1>3, <2>1, <2>5
    <3>2. /\ \A q \in Players : entity'[q] # None <=> Online(q)
          /\ \A q \in Players : q # c.previous => entity'[q] = paid[q]
          /\ Online(c.previous) => entity'[c.previous] = Earn(paid[c.previous], c.refund)
      BY <1>3, <2>2, <3>1, PayIs
    <3>3. Wealths' = [q \in Players |-> IF Online(q) THEN entity'[q] ELSE rows[q]]
      BY <1>1, <3>2 DEF Wealths, WealthOf, Online
    <3>4. Wealths' = IF Online(c.previous)
                     THEN [charged EXCEPT ![c.previous] = Earn(@, c.refund)]
                     ELSE charged
      BY <2>3, <3>1, <3>2, <3>3
    <3> QED
      BY <1>2, <1>3, <1>5, <2>5, <3>1, <3>4 DEF c, charged
  <2> QED
    BY <2>4, <2>5
<1> QED
  BY <1>4, <1>5
------------------------------------------------------------------------------
\* The money a lot holds, and what the lots hold together.
Stake(r) == IF r # None /\ r.buyer # None THEN r.cost ELSE 0
StakeSum(t) == SumFunction([o \in OrderIds |-> Stake(t[o])])

LEMMA EscrowsAre == SumFunction(Escrows) = StakeSum(orders)
<1>1. Escrows = [o \in OrderIds |-> Stake(orders[o])]
  BY DEF Escrows, Escrow, Stake, Open
<1> QED
  BY <1>1 DEF StakeSum

LEMMA OrderIdsFinite == IsFiniteSet(OrderIds)
BY FS_Interval, BoundsAssumption DEF OrderIds

LEMMA StakeIsInt ==
    ASSUME NEW t \in [OrderIds -> Orders \cup {None}]
    PROVE  /\ \A o \in OrderIds : Stake(t[o]) \in Int
           /\ StakeSum(t) \in Int
<1>1. \A o \in OrderIds : Stake(t[o]) \in Int
  BY DEF Stake, Orders
<1>2. [o \in OrderIds |-> Stake(t[o])] \in [OrderIds -> Int]
  BY <1>1
<1> QED
  BY <1>1, <1>2, SumOfInts, OrderIdsFinite DEF StakeSum

LEMMA StakeUpdate ==
    ASSUME NEW t \in [OrderIds -> Orders \cup {None}], NEW u \in [OrderIds -> Orders \cup {None}],
           NEW a \in OrderIds, \A o \in OrderIds \ {a} : u[o] = t[o]
    PROVE  StakeSum(u) = StakeSum(t) + (Stake(u[a]) - Stake(t[a]))
<1> DEFINE f == [o \in OrderIds |-> Stake(t[o])]
           h == [o \in OrderIds |-> Stake(u[o])]
<1>1. /\ f \in [OrderIds -> Int] /\ h \in [OrderIds -> Int]
      /\ f[a] = Stake(t[a]) /\ h[a] = Stake(u[a]) /\ \A o \in OrderIds \ {a} : h[o] = f[o]
  BY StakeIsInt
<1> HIDE DEF f, h
<1>2. SumFunction(h) = SumFunction(f) + (h[a] - f[a])
  BY <1>1, SumOfUpdate, OrderIdsFinite
<1> QED
  BY <1>1, <1>2 DEF StakeSum, f, h

\* The items on offer.
LEMMA OffersAre == TypeInv => Offers \in [OrderIds -> Int] /\ SumFunction(Offers) \in Int
<1> SUFFICES ASSUME TypeInv PROVE Offers \in [OrderIds -> Int]
  BY SumOfInts, OrderIdsFinite
<1> QED
  BY DEF Offers, OnOffer, Open, Orders, TypeInv, TypeOK

LEMMA OffersMove ==
    ASSUME TypeInv, TypeInv', NEW a \in OrderIds,
           \A o \in OrderIds \ {a} : Offers'[o] = Offers[o]
    PROVE  SumFunction(Offers)' = SumFunction(Offers) + (Offers'[a] - Offers[a])
<1>1. Offers \in [OrderIds -> Int]
  BY OffersAre
<1>2. TypeInv' => (Offers \in [OrderIds -> Int])'
  BY OffersAre, PTL
<1> QED
  BY <1>1, <1>2, SumOfUpdate, OrderIdsFinite

\* The items of lots on their way to the table.
LEMMA NewOffersAre ==
    TypeInv => /\ NewOffers \in [1..Len(saves) -> Int] /\ Len(saves) \in Nat
               /\ SumFunction(NewOffers) \in Int
<1> SUFFICES ASSUME TypeInv
             PROVE  NewOffers \in [1..Len(saves) -> Int] /\ Len(saves) \in Nat
  BY SumOfLine
<1>1. saves \in Seq(SaveCommands)
  BY DEF TypeInv, TypeOK
<1>2. \A i \in DOMAIN saves : BeingOffered(i) \in Int
  BY <1>1, Kinds DEF BeingOffered
<1> QED
  BY <1>1, <1>2 DEF NewOffers

Items(c) == IF c.kind = "create" THEN c.num ELSE 0

LEMMA NewOffersAppend ==
    ASSUME TypeInv, TypeInv', NEW c \in SaveCommands, saves' = Append(saves, c)
    PROVE  SumFunction(NewOffers)' = SumFunction(NewOffers) + Items(c)
<1>1. NewOffers \in [1..Len(saves) -> Int] /\ Len(saves) \in Nat
  BY NewOffersAre
<1>2. TypeInv' => (NewOffers \in [1..Len(saves) -> Int])'
  BY NewOffersAre, PTL
<1>3. /\ saves \in Seq(SaveCommands) /\ Len(saves') = Len(saves) + 1 /\ saves'[Len(saves) + 1] = c
      /\ \A i \in 1..Len(saves) : saves'[i] = saves[i]
      /\ DOMAIN saves' = 1..(Len(saves) + 1) /\ DOMAIN saves = 1..Len(saves)
  BY DEF TypeInv, TypeOK
<1>4. NewOffers'[Len(saves) + 1] = Items(c)
  BY <1>1, <1>3 DEF NewOffers, BeingOffered, Items
<1>5. \A i \in 1..Len(saves) : NewOffers'[i] = NewOffers[i]
  BY <1>1, <1>3 DEF NewOffers, BeingOffered
<1> QED
  BY ZenonT(30), <1>1, <1>2, <1>3, <1>4, <1>5, SumOfAppend

LEMMA NewOffersTail ==
    ASSUME TypeInv, TypeInv', saves # <<>>, saves' = Tail(saves)
    PROVE  SumFunction(NewOffers) = Items(Request) + SumFunction(NewOffers)'
<1>1. NewOffers \in [1..Len(saves) -> Int] /\ Len(saves) \in Nat
  BY NewOffersAre
<1>2. TypeInv' => (NewOffers \in [1..Len(saves) -> Int])' /\ (Len(saves) \in Nat)'
  BY NewOffersAre, PTL
<1>3. /\ saves \in Seq(SaveCommands) /\ Len(saves) = Len(saves') + 1 /\ saves[1] = Request
      /\ \A i \in 1..Len(saves') : saves'[i] = saves[i + 1]
      /\ DOMAIN saves' = 1..Len(saves') /\ DOMAIN saves = 1..Len(saves)
  BY DEF TypeInv, TypeOK, Request
<1>4. NewOffers[1] = Items(Request)
  BY <1>2, <1>3 DEF NewOffers, BeingOffered, Items
<1>5. \A i \in 1..Len(saves') : NewOffers'[i] = NewOffers[i + 1]
  BY <1>2, <1>3 DEF NewOffers, BeingOffered
<1> DEFINE n == Len(saves')
<1>6. /\ n \in Nat /\ NewOffers \in [1..(n + 1) -> Int] /\ NewOffers' \in [1..n -> Int]
      /\ \A i \in 1..n : NewOffers'[i] = NewOffers[i + 1]
  BY <1>1, <1>2, <1>3, <1>5
<1> HIDE DEF n
<1>7. SumFunction(NewOffers) = NewOffers[1] + SumFunction(NewOffers')
  BY <1>6, SumOfTail
<1> QED
  BY <1>4, <1>7

LEMMA NewOffersKept ==
    ASSUME saves' = saves
    PROVE  NewOffers' = NewOffers
BY DEF NewOffers, BeingOffered

\* What a completion on its way will change in the wealth of the players.
Owed(c) ==
    IF c.won THEN (IF c.previous # None /\ Online(c.previous) THEN c.refund ELSE 0) - c.amount
             ELSE 0
Claims == [i \in DOMAIN completions |-> Owed(completions[i])]

LEMMA OwedIsInt ==
    ASSUME NEW c \in Completions
    PROVE  Owed(c) \in Int
BY DEF Owed, Completions

LEMMA OwedStays ==
    ASSUME NEW c \in Completions, \A q \in Players : Online(q)' <=> Online(q)
    PROVE  Owed(c)' = Owed(c)
<1>1. c.previous \in Players \cup {None}
  BY DEF Completions
<1> QED
  BY <1>1 DEF Owed

LEMMA ClaimsAre ==
    TypeInv => /\ Claims \in [1..Len(completions) -> Int] /\ Len(completions) \in Nat
               /\ SumFunction(Claims) \in Int
<1> SUFFICES ASSUME TypeInv
             PROVE  Claims \in [1..Len(completions) -> Int] /\ Len(completions) \in Nat
  BY SumOfLine
<1>1. completions \in Seq(Completions)
  BY DEF TypeInv, TypeOK
<1> QED
  BY <1>1, OwedIsInt DEF Claims

LEMMA ClaimsAppend ==
    ASSUME TypeInv, TypeInv', NEW c \in Completions, completions' = Append(completions, c),
           \A q \in Players : Online(q)' <=> Online(q)
    PROVE  SumFunction(Claims)' = SumFunction(Claims) + Owed(c)
<1>1. Claims \in [1..Len(completions) -> Int] /\ Len(completions) \in Nat
  BY ClaimsAre
<1>2. TypeInv' => (Claims \in [1..Len(completions) -> Int])'
  BY ClaimsAre, PTL
<1>3. /\ completions \in Seq(Completions) /\ Len(completions') = Len(completions) + 1
      /\ completions'[Len(completions) + 1] = c
      /\ \A i \in 1..Len(completions) : completions'[i] = completions[i]
      /\ DOMAIN completions' = 1..(Len(completions) + 1)
      /\ DOMAIN completions = 1..Len(completions)
  BY DEF TypeInv, TypeOK
<1>4. Claims' = [i \in 1..(Len(completions) + 1) |-> Owed(completions'[i])]
  <2>1. \A i \in 1..(Len(completions) + 1) : completions'[i] \in Completions
    BY <1>1, <1>3
  <2>2. \A d \in Completions : Owed(d)' = Owed(d)
    BY OwedStays
  <2> QED
    BY <1>3, <2>1, <2>2 DEF Claims
<1>5. /\ Claims'[Len(completions) + 1] = Owed(c)
      /\ \A i \in 1..Len(completions) : Claims'[i] = Claims[i]
  BY <1>1, <1>3, <1>4 DEF Claims
<1> QED
  BY ZenonT(30), <1>1, <1>2, <1>3, <1>5, SumOfAppend

LEMMA ClaimsTail ==
    ASSUME TypeInv, TypeInv', completions # <<>>, completions' = Tail(completions),
           \A q \in Players : Online(q)' <=> Online(q)
    PROVE  SumFunction(Claims) = Owed(Head(completions)) + SumFunction(Claims)'
<1> DEFINE n == Len(completions')
<1>1. Claims \in [1..Len(completions) -> Int] /\ Len(completions) \in Nat
  BY ClaimsAre
<1>2. TypeInv' => (Claims \in [1..Len(completions) -> Int])' /\ (Len(completions) \in Nat)'
  BY ClaimsAre, PTL
<1>3. /\ completions \in Seq(Completions) /\ Len(completions) = n + 1
      /\ completions[1] = Head(completions)
      /\ \A i \in 1..n : completions'[i] = completions[i + 1]
      /\ DOMAIN completions' = 1..n /\ DOMAIN completions = 1..(n + 1) /\ n \in Nat
  BY <1>2 DEF TypeInv, TypeOK
<1> HIDE DEF n
<1>4. Claims' = [i \in 1..n |-> Owed(completions'[i])]
  <2>1. \A i \in 1..n : completions'[i] \in Completions
    BY <1>3
  <2>2. \A d \in Completions : Owed(d)' = Owed(d)
    BY OwedStays
  <2> QED
    BY <1>3, <2>1, <2>2 DEF Claims
<1>5. /\ Claims[1] = Owed(Head(completions))
      /\ \A i \in 1..n : Claims'[i] = Claims[i + 1]
  <2>1. \A j \in 1..(n + 1) : Claims[j] = Owed(completions[j])
    BY <1>3 DEF Claims
  <2>2. \A i \in 1..n : i + 1 \in 1..(n + 1)
    BY <1>3
  <2>3. \A i \in 1..n : Claims'[i] = Owed(completions[i + 1])
    BY <1>3, <1>4
  <2>4. 1 \in 1..(n + 1)
    BY <1>3
  <2>5. Claims[1] = Owed(Head(completions))
    BY <1>3, <2>1, <2>4
  <2> QED
    BY <2>1, <2>2, <2>3, <2>5
<1>6. Claims \in [1..(n + 1) -> Int] /\ Claims' \in [1..n -> Int]
  BY <1>1, <1>2, <1>3 DEF n
<1>7. SumFunction(Claims) = Claims[1] + SumFunction(Claims')
  BY <1>3, <1>5, <1>6, SumOfTail
<1> QED
  BY <1>5, <1>7

LEMMA ClaimsKept ==
    ASSUME TypeInv, completions' = completions, \A q \in Players : Online(q)' <=> Online(q)
    PROVE  Claims' = Claims
<1>1. completions \in Seq(Completions)
  BY DEF TypeInv, TypeOK
<1>2. \A i \in DOMAIN completions : completions[i] \in Completions
  BY <1>1
<1>3. \A d \in Completions : Owed(d)' = Owed(d)
  BY OwedStays
<1> QED
  BY <1>2, <1>3 DEF Claims
------------------------------------------------------------------------------
(***************************************************************************)
(* Items.                                                                  *)
(***************************************************************************)
\* A step balances when what it takes from one account it adds to others.
LEMMA ItemsBalance ==
    ASSUME TypeInv, TypeInv', ItemsConserved, "delete" \in incidents => "delete" \in incidents',
           NEW a \in Int, NEW b \in Int, NEW c \in Int, a + b + c = 0,
           ItemSum(Wealths') = ItemSum(Wealths) + a,
           SumFunction(Offers)' = SumFunction(Offers) + b,
           SumFunction(NewOffers)' = SumFunction(NewOffers) + c
    PROVE  ItemsConserved'
<1>1. /\ SumFunction(Inventories) = ItemSum(Wealths) /\ SumFunction(Inventories) \in Int
      /\ SumFunction(Offers) \in Int /\ SumFunction(NewOffers) \in Int
  BY WealthsAre, WealthSums, OffersAre, NewOffersAre
<1>2. TypeInv' => (SumFunction(Inventories) = ItemSum(Wealths))'
  BY WealthsAre, PTL
<1>3. (SumFunction(Inventories) = ItemSum(Wealths))' => SumFunction(Inventories)' = ItemSum(Wealths')
  BY DEF ItemSum
<1>4. SumFunction(Inventories)' + SumFunction(Offers)' + SumFunction(NewOffers)'
        = SumFunction(Inventories) + SumFunction(Offers) + SumFunction(NewOffers)
  BY <1>1, <1>2, <1>3
<1> QED
  BY <1>4 DEF ItemsConserved, TotalItems

\* No item moves between the accounts.
LEMMA ItemsStay ==
    ASSUME TypeInv, TypeInv', ItemsConserved, "delete" \in incidents => "delete" \in incidents',
           ItemSum(Wealths') = ItemSum(Wealths),
           \A o \in OrderIds : Offers'[o] = Offers[o],
           SumFunction(NewOffers)' = SumFunction(NewOffers)
    PROVE  ItemsConserved'
<1>1. /\ ItemSum(Wealths) \in Int /\ SumFunction(Offers) \in Int /\ SumFunction(NewOffers) \in Int
  BY WealthsAre, WealthSums, OffersAre, NewOffersAre
<1>2. Offers' = Offers
  BY DEF Offers
<1>3. /\ ItemSum(Wealths') = ItemSum(Wealths) + 0 /\ SumFunction(Offers)' = SumFunction(Offers) + 0
      /\ SumFunction(NewOffers)' = SumFunction(NewOffers) + 0
  BY <1>1, <1>2
<1> QED
  BY <1>3, ItemsBalance

LEMMA OffersKept ==
    ASSUME UNCHANGED <<orders, finalVars>>
    PROVE  \A o \in OrderIds : Offers'[o] = Offers[o]
BY DEF Offers, OnOffer, Open, finalVars

\* The finalizer moves on, to another stage than the last one.
LEMMA OffersInHand ==
    ASSUME UNCHANGED orders, stage # "delete", stage' # "delete"
    PROVE  \A o \in OrderIds : Offers'[o] = Offers[o]
BY DEF Offers, OnOffer, Open

LEMMA ItemsPlayer ==
    ASSUME Inv, ClosedMarket, TypeInv', ItemsConserved,
           \/ \E p \in Players, num \in 1..StartItems, cost \in Costs : SetNum(p, num, cost)
           \/ \E p \in Players, o \in OrderIds, amount \in Amounts \cup {None} : AuctionBet(p, o, amount)
           \/ \E p \in Players : FlushDirty(p)
    PROVE  ItemsConserved'
<1>1. /\ UNCHANGED <<orders, finalVars, incidents>> /\ Wealths \in [Players -> Wealth]
      /\ SumFunction(NewOffers) \in Int /\ SumFunction(Offers) \in Int
  BY WealthsAre, NewOffersAre, OffersAre DEF SetNum, AuctionBet, FlushDirty, history, Inv
<1>2. \A o \in OrderIds : Offers'[o] = Offers[o]
  BY <1>1, OffersKept
<1>3. ASSUME NEW p \in Players, NEW num \in 1..StartItems, NEW cost \in Costs,
             SetNum(p, num, cost)
      PROVE  ItemsConserved'
  <2> DEFINE c == [kind |-> "create", player |-> p, num |-> num, cost |-> cost]
  <2>1. num \in Nat \ {0} /\ cost \in Int /\ -num \in Int
    BY WealthAssumption, PricesAssumption
  <2>2. c \in SaveCommands /\ Items(c) = num
    BY <2>1, CommandsAre DEF Items
  <2>3. saves' = Append(saves, c)
    BY <1>3 DEF SetNum
  <2> HIDE DEF c
  <2>4. SumFunction(NewOffers)' = SumFunction(NewOffers) + num
    BY <2>2, <2>3, NewOffersAppend DEF Inv
  <2>5. Wealths' = [Wealths EXCEPT ![p] = Receive(@, -num)]
    BY <1>3, WealthSetNum DEF Inv
  <2>6. ItemSum(Wealths') = ItemSum(Wealths) + -num
    BY <1>1, <2>1, <2>5, ReceiveSum
  <2>7. SumFunction(Offers)' = SumFunction(Offers) + 0
    <3>1. Offers' = Offers
      BY <1>2 DEF Offers
    <3> QED
      BY <1>1, <3>1
  <2>8. -num + 0 + num = 0 /\ num \in Int
    BY <2>1
  <2> QED
    BY <1>1, <2>1, <2>4, <2>6, <2>7, <2>8, ItemsBalance DEF Inv
<1>4. ASSUME NEW c \in SaveCommands, saves' = Append(saves, c), c.kind # "create",
             UNCHANGED <<entity, rows>>
      PROVE  ItemsConserved'
  <2>1. SumFunction(NewOffers)' = SumFunction(NewOffers) + 0
    BY <1>4, NewOffersAppend DEF Items, Inv
  <2>2. SumFunction(NewOffers)' = SumFunction(NewOffers)
    BY <1>1, <2>1
  <2>3. Wealths' = Wealths
    BY <1>4, WealthKept
  <2> QED
    BY <1>1, <1>2, <2>2, <2>3, ItemsStay DEF Inv
<1>5. ASSUME NEW p \in Players, NEW o \in OrderIds, NEW amount \in Amounts \cup {None},
             AuctionBet(p, o, amount)
      PROVE  ItemsConserved'
  <2> DEFINE c == [kind |-> "bet", player |-> p, id |-> o, amount |-> amount,
                   money |-> entity[p].money]
  <2>1. entity[p].money \in Int
    BY <1>5 DEF AuctionBet, Online, Inv, TypeInv, TypeOK, Wealth
  <2>2. c \in SaveCommands /\ c.kind # "create"
    BY <2>1, PricesAssumption, CommandsAre
  <2>3. saves' = Append(saves, c) /\ UNCHANGED <<entity, rows>>
    BY <1>5 DEF AuctionBet, gameVars
  <2> HIDE DEF c
  <2> QED
    BY <1>4, <2>2, <2>3
<1>6. ASSUME NEW p \in Players, FlushDirty(p)
      PROVE  ItemsConserved'
  <2> DEFINE c == [kind |-> "player", player |-> p, row |-> entity[p]]
  <2>1. entity[p] \in Wealth
    BY <1>6 DEF FlushDirty, Online, Inv, TypeInv, TypeOK
  <2>2. c \in SaveCommands /\ c.kind # "create"
    BY <2>1, CommandsAre
  <2>3. saves' = Append(saves, c) /\ UNCHANGED <<entity, rows>>
    BY <1>6 DEF FlushDirty, Save
  <2> HIDE DEF c
  <2> QED
    BY <1>4, <2>2, <2>3
<1> QED
  BY <1>3, <1>5, <1>6

LEMMA ItemsPersist ==
    ASSUME Inv, TypeInv', ItemsConserved, PersistPlayer \/ PersistCreate \/ ReadOrder
    PROVE  ItemsConserved'
<1>1. /\ UNCHANGED <<finalVars, incidents>> /\ saves # <<>> /\ saves' = Tail(saves)
      /\ SumFunction(NewOffers) \in Int /\ SumFunction(Offers) \in Int
      /\ ItemSum(Wealths) \in Int
  BY NewOffersAre, OffersAre, WealthsAre, WealthSums
  DEF PersistPlayer, PersistCreate, ReadOrder, history, Inv
<1>2. SumFunction(NewOffers) = Items(Request) + SumFunction(NewOffers)'
  BY <1>1, NewOffersTail DEF Inv
<1>3. Wealths' = Wealths
  <2>1. ReadOrder \/ PersistCreate => UNCHANGED <<entity, rows>>
    BY DEF ReadOrder, PersistCreate, gameVars
  <2> QED
    BY <2>1, WealthKept, WealthPersistPlayer DEF Inv
<1>4. TypeInv' => (SumFunction(NewOffers) \in Int)'
  BY NewOffersAre, PTL
<1>5. CASE PersistPlayer \/ ReadOrder
  <2>1. UNCHANGED orders /\ Items(Request) = 0
    BY <1>5 DEF PersistPlayer, ReadOrder, Items
  <2>2. SumFunction(NewOffers)' = SumFunction(NewOffers)
    BY <1>1, <1>2, <1>4, <2>1
  <2> QED
    BY <1>1, <1>3, <2>1, <2>2, OffersKept, ItemsStay DEF Inv
<1>6. CASE PersistCreate
  <2> DEFINE n == Request.num
             a == created + 1
  <2>1. /\ a \in OrderIds /\ n \in Nat \ {0} /\ Items(Request) = n
        /\ orders'[a] \in Orders /\ orders'[a].num = n
        /\ orders \in [OrderIds -> Orders \cup {None}]
        /\ \A o \in OrderIds : o # a => orders'[o] = orders[o]
    BY <1>6, PersistCreateType DEF PersistCreate, Items, Inv, TypeInv, TypeOK
  <2>2. orders'[a] # None /\ orders[a] = None
    BY <2>1, NoneAssumption DEF Inv, TypeInv, TypeOK, LotInv, FutureLots, Open
  <2>3. stage # "idle" => job.id # a
    BY <2>2 DEF Inv, LotInv, ListedIsOpen, Open
  <2> HIDE DEF n, a
  <2>4. Offers'[a] = n /\ Offers[a] = 0 /\ \A o \in OrderIds \ {a} : Offers'[o] = Offers[o]
    BY <1>1, <2>1, <2>2, <2>3 DEF Offers, OnOffer, Open, finalVars
  <2>5. SumFunction(Offers)' = SumFunction(Offers) + n
    BY <2>1, <2>4, OffersMove DEF Inv
  <2>6. SumFunction(NewOffers)' = SumFunction(NewOffers) + -n
    BY <1>1, <1>2, <1>4, <2>1
  <2>7. ItemSum(Wealths') = ItemSum(Wealths) + 0 /\ 0 + n + -n = 0 /\ n \in Int /\ -n \in Int
    BY <1>1, <1>3, <2>1
  <2> QED
    BY <1>1, <2>5, <2>6, <2>7, ItemsBalance DEF Inv
<1> QED
  BY <1>5, <1>6

\* The worker's bids and the completions move money only.
LEMMA ItemsBid ==
    ASSUME Inv, TypeInv', ItemsConserved,
           \/ CasBet \/ RefundPrevious \/ RefundFails \/ RollbackBet \/ ApplyCompletion
           \/ \E o \in OrderIds : Ripen(o)
    PROVE  ItemsConserved'
<1>1. /\ UNCHANGED <<saves, finalVars>> /\ incidents \subseteq incidents'
      /\ Wealths \in [Players -> Wealth] /\ orders \in [OrderIds -> Orders \cup {None}]
  BY WealthsAre
  DEF CasBet, RefundPrevious, RefundFails, RollbackBet, ApplyCompletion, Ripen, Record,
      workerVars, history, Inv, TypeInv, TypeOK
<1>2. NewOffers' = NewOffers
  BY <1>1, NewOffersKept
<1>3. ItemSum(Wealths') = ItemSum(Wealths)
  <2>1. CASE RefundPrevious
    <3>1. bet.seen.cost \in Int /\ bet.seen.buyer \in Players
      BY <2>1, BetIs DEF RefundPrevious, Inv, BidInv, SwapIsKnown, Swapped
    <3> QED
      BY <1>1, <2>1, <3>1, WealthRefund, EarnSum DEF Inv
  <2>2. CASE ApplyCompletion
    <3> DEFINE c == Head(completions)
               n == -c.amount
               q == c.player
               charged == [Wealths EXCEPT ![q] = Earn(@, n)]
    <3>1. /\ q \in Players /\ n \in Int /\ c.refund \in Int
          /\ ~c.won => Wealths' = Wealths
          /\ c.won => Wealths' = IF c.previous # None /\ Online(c.previous)
                                 THEN [charged EXCEPT ![c.previous] = Earn(@, c.refund)]
                                 ELSE charged
          /\ c.previous # None => c.previous \in Players
      BY <2>2, WealthCompletion DEF Inv
    <3> HIDE DEF c, n, q
    <3>2. charged \in [Players -> Wealth] /\ ItemSum(charged) = ItemSum(Wealths)
      <4>1. q \in Players /\ n \in Int /\ Wealths \in [Players -> Wealth]
        BY <1>1, <3>1
      <4> QED
        BY <4>1, EarnSum
    <3> HIDE DEF charged
    <3> QED
      BY <3>1, <3>2, EarnSum
  <2>3. CASE UNCHANGED <<entity, rows>>
    BY <2>3, WealthKept
  <2> QED
    BY <2>1, <2>2, <2>3 DEF CasBet, RefundFails, RollbackBet, Ripen, gameVars
<1>4. \A o \in OrderIds : /\ orders'[o] = None <=> orders[o] = None
                          /\ orders[o] # None => orders'[o].num = orders[o].num
  <2>1. ASSUME NEW a \in OrderIds, Open(a), NEW cost \in Int, NEW buyer \in Players \cup {None},
               NEW fresh \in BOOLEAN,
               orders' = [orders EXCEPT ![a] = Rebid(@, cost, buyer, fresh)]
        PROVE  \A o \in OrderIds : /\ orders'[o] = None <=> orders[o] = None
                                   /\ orders[o] # None => orders'[o].num = orders[o].num
    <3>1. orders[a] \in Orders
      BY <1>1, <2>1 DEF Open
    <3>2. /\ Rebid(orders[a], cost, buyer, fresh) # None
          /\ Rebid(orders[a], cost, buyer, fresh).num = orders[a].num
      BY <2>1, <3>1, RebidIs, NoneAssumption
    <3> QED
      BY <1>1, <2>1, <3>2 DEF Open
  <2>2. CASE CasBet
    <3>1. /\ bet.player \in Players \cup {None} /\ bet.id \in OrderIds /\ bet.amount \in Int
          /\ TRUE \in BOOLEAN
      BY <2>2, BetIs DEF CasBet, Inv
    <3> QED
      BY <2>1, <2>2, <3>1 DEF CasBet, Holds
  <2>3. CASE RollbackBet
    <3>1. /\ bet.id \in OrderIds /\ bet.seen.cost \in Int /\ bet.seen.fresh \in BOOLEAN
          /\ bet.seen.buyer \in Players \cup {None}
      BY <2>3, BetIs DEF RollbackBet, Inv
    <3> QED
      BY ZenonT(30), <2>1, <2>3, <3>1 DEF RollbackBet, Holds
  <2>4. ASSUME NEW a \in OrderIds, Ripen(a)
        PROVE  \A o \in OrderIds : /\ orders'[o] = None <=> orders[o] = None
                                   /\ orders[o] # None => orders'[o].num = orders[o].num
    <3>1. orders[a] \in Orders
      BY <1>1, <2>4 DEF Ripen, Open
    <3>2. /\ [orders[a] EXCEPT !.fresh = FALSE] # None
          /\ [orders[a] EXCEPT !.fresh = FALSE].num = orders[a].num
      BY <3>1, RipeIs
    <3> QED
      BY <1>1, <2>4, <3>2 DEF Ripen, Open
  <2>5. CASE UNCHANGED orders
    BY <2>5
  <2> QED
    BY <2>2, <2>3, <2>4, <2>5 DEF RefundPrevious, RefundFails, ApplyCompletion
<1>5. \A o \in OrderIds : Offers'[o] = Offers[o]
  BY <1>1, <1>4 DEF Offers, OnOffer, Open, finalVars
<1> QED
  BY <1>1, <1>2, <1>3, <1>5, ItemsStay DEF Inv

\* The finalizer hands the items over, or does not touch them.
LEMMA ItemsFinalize ==
    ASSUME Inv, TypeInv', ItemsConserved, FinalizeStep
    PROVE  ItemsConserved'
<1>1. /\ UNCHANGED saves /\ incidents \subseteq incidents'
      /\ Wealths \in [Players -> Wealth] /\ orders \in [OrderIds -> Orders \cup {None}]
      /\ SumFunction(NewOffers) \in Int /\ ItemSum(Wealths) \in Int
  BY WealthsAre, WealthSums, NewOffersAre
  DEF FinalizeStep, ListReady, BeginFinalize, FinalizeOffline, CreditSeller, CreditBuyer,
      RevokeSeller, DeleteOrder, Remove, Record, workerVars, history, Inv, TypeInv, TypeOK
<1>2. NewOffers' = NewOffers /\ SumFunction(NewOffers)' = SumFunction(NewOffers) + 0
  BY <1>1, NewOffersKept
<1>3. ASSUME ItemSum(Wealths') = ItemSum(Wealths), \A o \in OrderIds : Offers'[o] = Offers[o]
      PROVE  ItemsConserved'
  BY <1>1, <1>2, <1>3, ItemsStay DEF Inv
<1>4. ASSUME stage # "idle", NEW w \in [Players -> Wealth], ItemSum(w) = ItemSum(Wealths),
             ItemSum(Wealths') = ItemSum(w) + job.order.num, Open(job.id), stage # "delete",
             \A o \in OrderIds \ {job.id} : Offers'[o] = Offers[o], Offers'[job.id] = 0
      PROVE  ItemsConserved'
  <2> DEFINE n == job.order.num
             m == 0 - n
  <2>1. /\ job.id \in OrderIds /\ n \in Nat /\ orders[job.id].num = n
    BY <1>4, JobIs DEF Inv, BidInv, ListedIsCurrent, Listed
  <2>2. Offers[job.id] = n
    BY <1>4, <2>1 DEF Offers, OnOffer
  <2>3. SumFunction(Offers)' = SumFunction(Offers) + m
    BY <1>4, <2>1, <2>2, OffersMove DEF Inv
  <2>4. n + m + 0 = 0 /\ m \in Int /\ n \in Int
    BY <2>1
  <2>5. ItemSum(Wealths') = ItemSum(Wealths) + n
    BY <1>4
  <2> HIDE DEF n, m
  <2>6. TypeInv /\ ("delete" \in incidents => "delete" \in incidents')
    BY <1>1 DEF Inv
  <2> QED
    BY <1>2, <2>3, <2>4, <2>5, <2>6, ItemsBalance
<1>5. CASE ListReady \/ \E s \in todo : BeginFinalize(s)
  <2>1. UNCHANGED <<entity, rows, orders>> /\ stage # "delete" /\ stage' # "delete"
    BY <1>5 DEF ListReady, BeginFinalize, gameVars
  <2> QED
    BY <1>3, <2>1, WealthKept, OffersInHand
<1>6. CASE FinalizeOffline
  <2>1. /\ stage = "offline" /\ stage' = "idle" /\ UNCHANGED entity
        /\ job \in Snapshots /\ job.id \in OrderIds /\ job.order.buyer \in Players
        /\ job.order.seller \in Players /\ job.order.num \in Int /\ job.order.cost \in Int
        /\ ~Online(job.order.buyer) /\ ~Online(job.order.seller) /\ Open(job.id)
    BY <1>6, JobIs
    DEF FinalizeOffline, Finish, gameVars, Inv, LotInv, ListedIsOpen, BidInv, BiddersAreOnline
  <2>2. CASE rows' = CreditedOffline(job) /\ Remove(job)
    <3> DEFINE one == [Wealths EXCEPT ![job.order.buyer] = Receive(@, job.order.num)]
    <3>1. Wealths' = [one EXCEPT ![job.order.seller] = Earn(@, job.order.cost)]
      BY <2>1, <2>2, WealthOffline DEF Inv
    <3>2. one \in [Players -> Wealth] /\ ItemSum(one) = ItemSum(Wealths) + job.order.num
      BY <1>1, <2>1, ReceiveSum
    <3> DEFINE q == job.order.seller
               n == job.order.cost
    <3> HIDE DEF one, q, n
    <3>3. ItemSum([one EXCEPT ![q] = Earn(@, n)]) = ItemSum(one)
      <4>1. q \in Players /\ n \in Int
        BY <2>1 DEF q, n
      <4> QED
        BY ZenonT(30), <3>2, <4>1, EarnSum
    <3>6. ItemSum(Wealths') = ItemSum(Wealths) + job.order.num
      BY <3>1, <3>2, <3>3 DEF q, n
    <3>4. /\ orders'[job.id] = None /\ \A o \in OrderIds \ {job.id} : orders'[o] = orders[o]
      BY <1>1, <2>1, <2>2 DEF Remove
    <3>5. Offers'[job.id] = 0 /\ \A o \in OrderIds \ {job.id} : Offers'[o] = Offers[o]
      BY <2>1, <3>4 DEF Offers, OnOffer, Open
    <3> QED
      BY <1>1, <1>4, <2>1, <3>6, <3>5
  <2>3. CASE UNCHANGED <<rows, orders>>
    BY <1>3, <2>1, <2>3, WealthKept, OffersInHand
  <2> QED
    BY <1>6, <2>2, <2>3 DEF FinalizeOffline
<1>7. CASE CreditSeller \/ RevokeSeller
  <2>1. /\ stage # "delete" /\ stage # "idle" /\ stage' # "delete" /\ UNCHANGED orders
        /\ \/ CreditMoney(job.order.seller, job.order.cost)
           \/ CreditMoney(job.order.seller, -job.order.cost)
           \/ UNCHANGED <<entity, rows>>
    BY <1>7 DEF CreditSeller, RevokeSeller, Finish, CreditFails, gameVars
  <2>2. job.order.seller \in Players /\ job.order.cost \in Int /\ -job.order.cost \in Int
    BY <2>1, JobIs DEF Inv
  <2>3. ItemSum(Wealths') = ItemSum(Wealths)
    BY <1>1, <2>1, <2>2, WealthCreditMoney, EarnSum, WealthKept DEF Inv
  <2> QED
    BY <1>3, <2>1, <2>3, OffersInHand
<1>8. CASE CreditBuyer
  <2>1. /\ stage = "buyer" /\ UNCHANGED <<orders, job>> /\ Open(job.id)
        /\ job.id \in OrderIds /\ job.order.buyer \in Players /\ job.order.num \in Int
    BY <1>8, JobIs DEF CreditBuyer, Inv, LotInv, ListedIsOpen
  <2>2. CASE CreditItems(job.order.buyer, job.order.num) /\ stage' = "delete"
    <3>1. Wealths' = [Wealths EXCEPT ![job.order.buyer] = Receive(@, job.order.num)]
      BY <2>1, <2>2, WealthCreditItems DEF Inv
    <3>2. ItemSum(Wealths') = ItemSum(Wealths) + job.order.num
      BY <1>1, <2>1, <3>1, ReceiveSum
    <3>3. Offers'[job.id] = 0 /\ \A o \in OrderIds \ {job.id} : Offers'[o] = Offers[o]
      BY <2>1, <2>2 DEF Offers, OnOffer, Open
    <3> QED
      BY <1>1, <1>4, <2>1, <3>2, <3>3
  <2>3. CASE CreditFails("buyer", job.order.buyer) /\ stage' = "revoke"
    BY <1>3, <2>1, <2>3, WealthKept, OffersInHand DEF CreditFails, gameVars
  <2> QED
    BY <1>8, <2>2, <2>3 DEF CreditBuyer
<1>9. CASE DeleteOrder
  <2>1. stage = "delete" /\ stage' = "idle" /\ UNCHANGED <<entity, rows>> /\ job.id \in OrderIds
    BY <1>9, JobIs DEF DeleteOrder, Finish, gameVars, Inv
  <2>2. CASE Remove(job)
    <3>1. /\ orders'[job.id] = None /\ \A o \in OrderIds \ {job.id} : orders'[o] = orders[o]
      BY <1>1, <2>1, <2>2 DEF Remove
    <3>2. \A o \in OrderIds : Offers'[o] = Offers[o]
      BY <2>1, <3>1 DEF Offers, OnOffer, Open
    <3> QED
      BY <1>3, <2>1, <3>2, WealthKept
  <2>3. CASE Record("delete")
    BY <2>3 DEF Record, ItemsConserved
  <2> QED
    BY <1>9, <2>2, <2>3 DEF DeleteOrder
<1> QED
  BY <1>5, <1>6, <1>7, <1>8, <1>9 DEF FinalizeStep

\* What the first state adds up to: the players have paid for the bid and
\* given the items of the one lot there may be.
LEMMA FirstSum ==
    ASSUME NEW f \in [Players -> Int], NEW c \in Int, NEW a \in Players,
           \A q \in Players \ {a} : f[q] = c
    PROVE  SumFunction(f) = c * Cardinality(Players) + (f[a] - c)
<1> DEFINE g == [q \in Players |-> c]
<1>1. g \in [Players -> Int] /\ g[a] = c /\ \A q \in Players \ {a} : f[q] = g[q]
  OBVIOUS
<1>2. SumFunction(g) = c * Cardinality(Players)
  BY SumOfConst, PlayersAssumption
<1> HIDE DEF g
<1>3. SumFunction(f) = SumFunction(g) + (f[a] - g[a])
  BY <1>1, SumOfUpdate, PlayersAssumption
<1> QED
  BY <1>1, <1>2, <1>3

\* Only the first lot of the table counts.
LEMMA FirstLot ==
    ASSUME NEW f \in [OrderIds -> Int], \A o \in OrderIds \ {1} : f[o] = 0
    PROVE  SumFunction(f) = f[1]
<1> DEFINE g == [o \in OrderIds |-> 0]
<1>1. 1 \in OrderIds
  BY BoundsAssumption DEF OrderIds
<1>2. g \in [OrderIds -> Int] /\ g[1] = 0 /\ \A o \in OrderIds \ {1} : f[o] = g[o]
  BY <1>1
<1>3. SumFunction(g) = 0
  <2>1. 0 \in Int /\ Cardinality(OrderIds) \in Nat
    BY OrderIdsFinite, FS_CardinalityType
  <2>2. SumFunction(g) = 0 * Cardinality(OrderIds)
    BY <2>1, SumOfConst, OrderIdsFinite, Zenon
  <2> QED
    BY <2>1, <2>2
<1> HIDE DEF g
<1>4. SumFunction(f) = SumFunction(g) + (f[1] - g[1])
  BY <1>1, <1>2, SumOfUpdate, OrderIdsFinite
<1>5. f[1] \in Int
  BY <1>1
<1> QED
  BY <1>2, <1>3, <1>4, <1>5

LEMMA SumOfNone ==
    ASSUME NEW f, DOMAIN f = {}
    PROVE  SumFunction(f) = 0
BY SumEmpty DEF SumFunction

LEMMA FirstState ==
    ASSUME Init
    PROVE  \E old \in OldLots :
              /\ Wealths = [p \in Players |-> [money |-> StartMoney - Paid(old, p),
                                               items |-> StartItems - Offered(old, p)]]
              /\ orders = [o \in OrderIds |-> IF o = 1 THEN old ELSE None]
              /\ saves = <<>> /\ bet = None /\ completions = <<>> /\ stage = "idle"
              /\ old # None => /\ old.seller \in Players /\ old.num \in Int /\ old.cost \in Int
                               /\ old.buyer \in Players \cup {None}
<1>1. PICK old \in OldLots, online \in SUBSET Players :
        /\ rows = [p \in Players |-> [money |-> StartMoney - Paid(old, p),
                                      items |-> StartItems - Offered(old, p)]]
        /\ entity = [p \in Players |-> IF p \in online THEN rows[p] ELSE None]
        /\ orders = [o \in OrderIds |-> IF o = 1 THEN old ELSE None]
        /\ saves = <<>> /\ bet = None /\ completions = <<>> /\ stage = "idle"
  BY DEF Init
<1>2. Wealths = rows
  BY <1>1 DEF Wealths, WealthOf, Online
<1>3. old # None => /\ old.seller \in Players /\ old.num \in Int /\ old.cost \in Int
                    /\ old.buyer \in Players \cup {None}
  <2>1. old # None =>
          old \in [seller : Players, num : 1..StartItems, cost : Costs,
                   buyer : Players \cup {None}, fresh : {FALSE}]
    BY DEF OldLots
  <2>2. 1..StartItems \subseteq Int /\ Costs \subseteq Int
    BY PricesAssumption, WealthAssumption
  <2> QED
    BY <2>1, <2>2
<1> QED
  BY <1>1, <1>2, <1>3

LEMMA ItemsInit == Init => ItemsConserved
<1> SUFFICES ASSUME Init PROVE ItemsConserved
  OBVIOUS
<1>1. TypeInv /\ Wealths \in [Players -> Wealth]
  BY TypeInit, WealthsAre
<1>2. PICK old \in OldLots :
        /\ Wealths = [p \in Players |-> [money |-> StartMoney - Paid(old, p),
                                         items |-> StartItems - Offered(old, p)]]
        /\ orders = [o \in OrderIds |-> IF o = 1 THEN old ELSE None]
        /\ saves = <<>> /\ stage = "idle"
        /\ old # None => old.seller \in Players /\ old.num \in Int
  BY FirstState
<1>3. SumFunction(NewOffers) = 0
  BY <1>2, SumOfNone DEF NewOffers
<1>4. SumFunction(Offers) = IF old = None THEN 0 ELSE old.num
  <2>1. Offers \in [OrderIds -> Int]
    BY <1>1, OffersAre
  <2>2. 1 \in OrderIds
    BY BoundsAssumption DEF OrderIds
  <2>3. /\ \A o \in OrderIds \ {1} : Offers[o] = 0
        /\ Offers[1] = IF old = None THEN 0 ELSE old.num
    BY <1>2, <2>2 DEF Offers, OnOffer, Open
  <2> QED
    BY <2>1, <2>3, FirstLot
<1> DEFINE f == [p \in Players |-> Wealths[p].items]
<1>5. /\ f \in [Players -> Int]
      /\ \A p \in Players : f[p] = StartItems - Offered(old, p)
  <2>1. f \in [Players -> Int]
    BY <1>1 DEF Wealth
  <2> QED
    BY <1>2, <2>1
<1> HIDE DEF f
<1>6. SumFunction(f) = TotalItems - IF old = None THEN 0 ELSE old.num
  <2>1. StartItems \in Int /\ Cardinality(Players) \in Nat /\ TotalItems \in Int
    BY WealthAssumption, PlayersAssumption, FS_CardinalityType DEF TotalItems
  <2>2. CASE old = None
    <3>1. f = [p \in Players |-> StartItems]
      BY <1>5, <2>1, <2>2 DEF Offered
    <3>2. SumFunction(f) = StartItems * Cardinality(Players)
      BY <2>1, <3>1, SumOfConst, PlayersAssumption
    <3> QED
      BY <2>1, <2>2, <3>2 DEF TotalItems
  <2>3. CASE old # None
    <3> DEFINE a == old.seller
    <3>1. a \in Players /\ f[a] = StartItems - old.num /\ old.num \in Int
          /\ \A q \in Players \ {a} : f[q] = StartItems
      BY <1>2, <1>5, <2>1, <2>3 DEF Offered
    <3> HIDE DEF a
    <3>2. SumFunction(f) = StartItems * Cardinality(Players) + (f[a] - StartItems)
      BY <1>5, <2>1, <3>1, FirstSum
    <3>3. SumFunction(f) = TotalItems + ((StartItems - old.num) - StartItems)
      BY <3>1, <3>2 DEF TotalItems
    <3> QED
      BY <2>1, <2>3, <3>1, <3>3
  <2> QED
    BY <2>2, <2>3
<1>7. SumFunction(Inventories) = SumFunction(f)
  BY <1>1, WealthsAre DEF ItemSum, f
<1>8. TotalItems \in Int
  BY WealthAssumption, PlayersAssumption, FS_CardinalityType DEF TotalItems
<1> QED
  BY <1>2, <1>3, <1>4, <1>6, <1>7, <1>8 DEF ItemsConserved

LEMMA ItemsStep == Inv /\ ClosedMarket /\ ItemsConserved /\ [Next]_vars => ItemsConserved'
<1> SUFFICES ASSUME Inv, ClosedMarket, ItemsConserved, [Next]_vars PROVE ItemsConserved'
  OBVIOUS
<1>1. TypeInv'
  BY TypeStep DEF Inv
<1>2. CASE UNCHANGED vars
  BY <1>2 DEF vars, gameVars, workerVars, finalVars, history, ItemsConserved, Inventories,
     ItemsOf, WealthOf, Online, Offers, OnOffer, Open, NewOffers, BeingOffered
<1>3. CASE PlayerStep \/ \E p \in Players : FlushDirty(p)
  <2>1. \A p \in Players : ~Logout(p) /\ ~Login(p)
    BY DEF ClosedMarket, Logout, Login
  <2> QED
    BY <1>1, <1>3, <2>1, ItemsPlayer DEF PlayerStep
<1>4. CASE WorkerStep \/ ApplyCompletion \/ \E o \in OrderIds : Ripen(o)
  BY <1>1, <1>4, ItemsPersist, ItemsBid DEF WorkerStep
<1> QED
  BY <1>1, <1>2, <1>3, <1>4, ItemsFinalize DEF Next
------------------------------------------------------------------------------
(***************************************************************************)
(* Money.  Besides the purses and the bids in the table there is what a    *)
(* completion still has to change, the bid that is in the table and not    *)
(* yet refunded, and what the seller has got before the lot is deleted.    *)
(***************************************************************************)
BidGap == IF Swapped THEN bet.seen.cost - bet.amount ELSE 0
Advance == IF stage \in {"buyer", "revoke", "delete"} THEN -job.order.cost ELSE 0
MoneyBooks ==
    incidents = {} =>
        SumFunction(Purses) + SumFunction(Escrows) + SumFunction(Claims) + BidGap + Advance
            = TotalMoney

LEMMA GapsAre == TypeInv => BidGap \in Int /\ Advance \in Int
<1> SUFFICES ASSUME TypeInv PROVE BidGap \in Int /\ Advance \in Int
  OBVIOUS
<1>1. BidGap \in Int
  BY BetIs DEF BidGap, Swapped
<1>2. Advance \in Int
  BY JobIs DEF Advance
<1> QED
  BY <1>1, <1>2

\* The books of the lots are those of the table, before and after a step.
LEMMA StakesAre ==
    ASSUME TypeInv, TypeInv'
    PROVE  /\ orders \in [OrderIds -> Orders \cup {None}] /\ orders' \in [OrderIds -> Orders \cup {None}]
           /\ SumFunction(Escrows) = StakeSum(orders) /\ SumFunction(Escrows)' = StakeSum(orders')
           /\ StakeSum(orders) \in Int /\ StakeSum(orders') \in Int
<1>1. orders \in [OrderIds -> Orders \cup {None}] /\ orders' \in [OrderIds -> Orders \cup {None}]
  BY DEF TypeInv, TypeOK
<1>2. StakeSum(orders) \in Int /\ StakeSum(orders') \in Int
  BY <1>1, StakeIsInt
<1>3. Escrows' = [o \in OrderIds |-> Stake(orders'[o])]
  BY DEF Escrows, Escrow, Stake, Open
<1> QED
  BY <1>1, <1>2, <1>3, EscrowsAre DEF StakeSum

\* A step balances when what it takes from one account it adds to others.
LEMMA MoneyBalance ==
    ASSUME TypeInv, TypeInv', MoneyBooks, incidents' = {} => incidents = {},
           NEW a \in Int, NEW b \in Int, NEW c \in Int,
           incidents' = {} => a + b + c + (BidGap' - BidGap) + (Advance' - Advance) = 0,
           MoneySum(Wealths') = MoneySum(Wealths) + a,
           StakeSum(orders') = StakeSum(orders) + b,
           SumFunction(Claims)' = SumFunction(Claims) + c
    PROVE  MoneyBooks'
<1>1. /\ SumFunction(Purses) = MoneySum(Wealths) /\ MoneySum(Wealths) \in Int
      /\ SumFunction(Claims) \in Int /\ BidGap \in Int /\ Advance \in Int
  BY WealthsAre, WealthSums, ClaimsAre, GapsAre
<1>2. TypeInv' => (SumFunction(Purses) = MoneySum(Wealths))'
  BY WealthsAre, PTL
<1>3. (SumFunction(Purses) = MoneySum(Wealths))' => SumFunction(Purses)' = MoneySum(Wealths')
  BY DEF MoneySum
<1>4. TypeInv' => (BidGap \in Int)' /\ (Advance \in Int)'
  BY GapsAre, PTL
<1>5. /\ SumFunction(Escrows) = StakeSum(orders) /\ SumFunction(Escrows)' = StakeSum(orders')
      /\ StakeSum(orders) \in Int
  BY StakesAre
<1> DEFINE w == MoneySum(Wealths)
           t == StakeSum(orders)
           k == SumFunction(Claims)
           g == BidGap
           h == BidGap'
           d == Advance
           e == Advance'
<1>6. /\ w \in Int /\ t \in Int /\ k \in Int /\ g \in Int /\ h \in Int /\ d \in Int /\ e \in Int
      /\ incidents' = {} => a + b + c + (h - g) + (e - d) = 0
      /\ incidents' = {} => w + t + k + g + d = TotalMoney
      /\ SumFunction(Purses)' = w + a /\ SumFunction(Escrows)' = t + b
      /\ SumFunction(Claims)' = k + c
  BY <1>1, <1>2, <1>3, <1>4, <1>5 DEF MoneyBooks
<1> HIDE DEF w, t, k, g, h, d, e
<1>7. incidents' = {} => (w + a) + (t + b) + (k + c) + h + e = TotalMoney
  BY <1>6
<1>8. TotalMoney' = TotalMoney
  BY DEF TotalMoney
<1> QED
  BY <1>6, <1>7, <1>8 DEF MoneyBooks, h, e

\* No money moves between the accounts.
LEMMA MoneyStay ==
    ASSUME TypeInv, TypeInv', MoneyBooks, incidents' = incidents,
           MoneySum(Wealths') = MoneySum(Wealths),
           \A o \in OrderIds : Stake(orders'[o]) = Stake(orders[o]),
           SumFunction(Claims)' = SumFunction(Claims),
           BidGap' = BidGap, Advance' = Advance
    PROVE  MoneyBooks'
<1>1. /\ MoneySum(Wealths) \in Int /\ StakeSum(orders) \in Int /\ SumFunction(Claims) \in Int
      /\ BidGap \in Int /\ Advance \in Int
  BY WealthsAre, WealthSums, StakesAre, ClaimsAre, GapsAre
<1>2. StakeSum(orders') = StakeSum(orders)
  BY DEF StakeSum
<1>3. /\ MoneySum(Wealths') = MoneySum(Wealths) + 0 /\ StakeSum(orders') = StakeSum(orders) + 0
      /\ SumFunction(Claims)' = SumFunction(Claims) + 0
      /\ 0 + 0 + 0 + (BidGap' - BidGap) + (Advance' - Advance) = 0 /\ 0 \in Int
  BY <1>1, <1>2
<1> QED
  BY <1>3, MoneyBalance

LEMMA LostIs ==
    ASSUME NEW p \in Players
    PROVE  Lost(p) \in Completions /\ Owed(Lost(p)) = 0
BY DEF Lost, Completions, Owed

LEMMA WonIs ==
    ASSUME NEW b \in Bets
    PROVE  /\ Won(b) \in Completions
           /\ Owed(Won(b)) = (IF b.seen.buyer # None /\ Online(b.seen.buyer) THEN b.seen.cost ELSE 0)
                                 - b.amount
<1>1. b.player \in Players /\ b.amount \in Int /\ b.seen \in Orders
  BY DEF Bets
<1>2. b.seen.buyer \in Players \cup {None} /\ b.seen.cost \in Int
  BY <1>1 DEF Orders
<1> QED
  BY <1>1, <1>2 DEF Won, Completions, Owed

\* The buttons, the saves and the clock move no money.
LEMMA MoneyAside ==
    ASSUME Inv, ClosedMarket, [Next]_vars, TypeInv', MoneyBooks,
           \/ \E p \in Players, num \in 1..StartItems, cost \in Costs : SetNum(p, num, cost)
           \/ \E p \in Players, o \in OrderIds, amount \in Amounts \cup {None} : AuctionBet(p, o, amount)
           \/ \E p \in Players : FlushDirty(p)
           \/ PersistPlayer \/ PersistCreate \/ ReadOrder \/ RefundFails
           \/ \E o \in OrderIds : Ripen(o)
           \/ ListReady \/ \E s \in todo : BeginFinalize(s)
           \/ UNCHANGED vars
    PROVE  MoneyBooks'
<1>1. incidents' = incidents
  BY DEF SetNum, AuctionBet, FlushDirty, PersistPlayer, PersistCreate, ReadOrder, RefundFails,
         Ripen, ListReady, BeginFinalize, vars, history
<1>2. /\ Wealths \in [Players -> Wealth] /\ MoneySum(Wealths) \in Int /\ SumFunction(Claims) \in Int
      /\ orders \in [OrderIds -> Orders \cup {None}]
  BY WealthsAre, WealthSums, ClaimsAre DEF Inv, TypeInv, TypeOK
<1>3. MoneySum(Wealths') = MoneySum(Wealths)
  <2>1. ASSUME NEW p \in Players, NEW num \in 1..StartItems, NEW cost \in Costs,
               SetNum(p, num, cost)
        PROVE  MoneySum(Wealths') = MoneySum(Wealths)
    <3>1. -num \in Int /\ Wealths' = [Wealths EXCEPT ![p] = Receive(@, -num)]
      BY <2>1, WealthSetNum, WealthAssumption DEF Inv
    <3> QED
      BY <1>2, <3>1, ReceiveSum
  <2>2. CASE PersistPlayer
    BY <2>2, WealthPersistPlayer DEF Inv
  <2>3. CASE UNCHANGED <<entity, rows>>
    BY <2>3, WealthKept
  <2> QED
    BY <2>1, <2>2, <2>3
    DEF AuctionBet, FlushDirty, PersistCreate, ReadOrder, RefundFails, Ripen, ListReady,
        BeginFinalize, gameVars, vars
<1>4. \A o \in OrderIds : Stake(orders'[o]) = Stake(orders[o])
  <2>1. CASE PersistCreate
    <3> DEFINE a == created + 1
    <3>1. /\ a \in OrderIds /\ orders'[a].buyer = None
          /\ \A o \in OrderIds : o # a => orders'[o] = orders[o]
      BY <2>1, PersistCreateType DEF PersistCreate, Inv, TypeInv, TypeOK
    <3>2. orders[a] = None
      BY <3>1 DEF Inv, TypeInv, TypeOK, LotInv, FutureLots, Open
    <3> QED
      BY <3>1, <3>2 DEF Stake
  <2>2. ASSUME NEW a \in OrderIds, Ripen(a)
        PROVE  \A o \in OrderIds : Stake(orders'[o]) = Stake(orders[o])
    <3>1. orders[a] \in Orders /\ orders[a] # None
      BY <1>2, <2>2 DEF Ripen, Open
    <3>2. /\ [orders[a] EXCEPT !.fresh = FALSE] # None
          /\ [orders[a] EXCEPT !.fresh = FALSE].buyer = orders[a].buyer
          /\ [orders[a] EXCEPT !.fresh = FALSE].cost = orders[a].cost
      BY <3>1, RipeIs
    <3>3. /\ orders'[a] = [orders[a] EXCEPT !.fresh = FALSE]
          /\ \A o \in OrderIds : o # a => orders'[o] = orders[o]
      BY <1>2, <2>2 DEF Ripen
    <3> QED
      BY <3>1, <3>2, <3>3 DEF Stake
  <2>3. CASE UNCHANGED orders
    BY <2>3
  <2> QED
    BY <2>1, <2>2, <2>3
    DEF SetNum, AuctionBet, FlushDirty, PersistPlayer, ReadOrder, RefundFails, ListReady,
        BeginFinalize, vars
<1>5. \A q \in Players : Online(q)' <=> Online(q)
  BY OnlineStays DEF Inv
<1>6. SumFunction(Claims)' = SumFunction(Claims)
  <2>1. ASSUME ReadOrder, completions' = Append(completions, Lost(Request.player))
        PROVE  SumFunction(Claims)' = SumFunction(Claims)
    <3>1. /\ saves \in Seq(SaveCommands) /\ saves # <<>> /\ Request = saves[1]
          /\ 1 \in DOMAIN saves /\ Request \in SaveCommands
      BY <2>1 DEF ReadOrder, Request, Inv, TypeInv, TypeOK
    <3>2. Request.player \in Players
      BY <3>1, Kinds
    <3>3. SumFunction(Claims)' = SumFunction(Claims) + 0
      BY <1>5, <2>1, <3>2, LostIs, ClaimsAppend DEF Inv
    <3> QED
      BY <1>2, <3>3
  <2>2. CASE UNCHANGED completions
    BY <1>5, <2>2, ClaimsKept DEF Inv
  <2> QED
    BY <2>1, <2>2
    DEF SetNum, AuctionBet, FlushDirty, PersistPlayer, PersistCreate, ReadOrder, RefundFails,
        Ripen, ListReady, BeginFinalize, vars, workerVars, Answer
<1>7. BidGap' = BidGap
  <2>1. CASE ReadOrder
    BY <2>1 DEF ReadOrder, BidGap, Swapped
  <2>2. CASE RefundFails
    <3>1. bet # None /\ bet \in Bets /\ bet.step = "refund" /\ bet' = [bet EXCEPT !.step = "rollback"]
      BY <2>2, BetIs DEF RefundFails, Inv
    <3>2. bet'.seen = bet.seen /\ bet'.amount = bet.amount /\ bet'.step = "rollback" /\ bet' \in Bets
      BY <3>1 DEF Bets
    <3> QED
      BY <3>1, <3>2, NoneAssumption DEF BidGap, Swapped
  <2>3. CASE UNCHANGED bet
    BY <2>3 DEF BidGap, Swapped
  <2> QED
    BY <2>1, <2>2, <2>3
    DEF SetNum, AuctionBet, FlushDirty, PersistPlayer, PersistCreate, Ripen, ListReady,
        BeginFinalize, vars, workerVars
<1>8. Advance' = Advance
  <2>1. CASE UNCHANGED finalVars
    BY <2>1 DEF Advance, finalVars
  <2>2. CASE ListReady \/ \E s \in todo : BeginFinalize(s)
    BY <2>2 DEF ListReady, BeginFinalize, Advance
  <2> QED
    BY <2>1, <2>2
    DEF SetNum, AuctionBet, FlushDirty, PersistPlayer, PersistCreate, ReadOrder, RefundFails,
        Ripen, vars
<1> QED
  BY <1>1, <1>3, <1>4, <1>6, <1>7, <1>8, MoneyStay DEF Inv

\* A bid goes into the table, and comes out again.
LEMMA StakeRebid ==
    ASSUME TypeInv, TypeInv', NEW o \in OrderIds, Open(o), NEW cost \in Int,
           NEW buyer \in Players, NEW fresh \in BOOLEAN,
           orders' = [orders EXCEPT ![o] = Rebid(@, cost, buyer, fresh)]
    PROVE  StakeSum(orders') = StakeSum(orders) + (cost - Stake(orders[o]))
<1>1. orders \in [OrderIds -> Orders \cup {None}] /\ orders' \in [OrderIds -> Orders \cup {None}]
  BY StakesAre
<1>2. orders[o] \in Orders /\ buyer \in Players \cup {None}
  BY <1>1 DEF Open
<1> DEFINE r == Rebid(orders[o], cost, buyer, fresh)
<1>3. r # None /\ r.buyer = buyer /\ r.cost = cost
  BY <1>2, RebidIs
<1>4. orders'[o] = r /\ \A x \in OrderIds \ {o} : orders'[x] = orders[x]
  BY <1>1
<1> HIDE DEF r
<1>5. Stake(orders'[o]) = cost
  BY <1>3, <1>4, PlayersAssumption DEF Stake
<1>6. StakeSum(orders') = StakeSum(orders) + (Stake(orders'[o]) - Stake(orders[o]))
  BY <1>1, <1>4, StakeUpdate
<1> QED
  BY <1>5, <1>6

LEMMA StakeKept ==
    ASSUME TypeInv, TypeInv', UNCHANGED orders
    PROVE  StakeSum(orders') = StakeSum(orders) + 0
BY StakesAre

\* The lots take what a bid or a delivery is short of.
LEMMA LotsBalance ==
    ASSUME TypeInv, TypeInv', MoneyBooks, incidents' = {} => incidents = {}, NEW b \in Int,
           incidents' = {} => b + (BidGap' - BidGap) + (Advance' - Advance) = 0,
           MoneySum(Wealths') = MoneySum(Wealths),
           StakeSum(orders') = StakeSum(orders) + b,
           SumFunction(Claims)' = SumFunction(Claims)
    PROVE  MoneyBooks'
<1> DEFINE z == 0
<1>1. /\ MoneySum(Wealths) \in Int /\ SumFunction(Claims) \in Int
      /\ BidGap \in Int /\ Advance \in Int
  BY WealthsAre, WealthSums, ClaimsAre, GapsAre
<1>2. TypeInv' => (BidGap \in Int)' /\ (Advance \in Int)'
  BY GapsAre, PTL
<1>3. /\ z \in Int /\ MoneySum(Wealths') = MoneySum(Wealths) + z
      /\ SumFunction(Claims)' = SumFunction(Claims) + z
      /\ incidents' = {} => z + b + z + (BidGap' - BidGap) + (Advance' - Advance) = 0
  BY <1>1, <1>2
<1> HIDE DEF z
<1> QED
  BY <1>3, MoneyBalance

LEMMA MoneyCasBet ==
    ASSUME Inv, ClosedMarket, [Next]_vars, TypeInv', MoneyBooks, CasBet
    PROVE  MoneyBooks'
<1>1. /\ bet # None /\ bet.step = "cas" /\ UNCHANGED <<entity, rows, finalVars, incidents>>
      /\ \A q \in Players : Online(q)' <=> Online(q)
  BY OnlineStays DEF CasBet, gameVars, history, Inv
<1> DEFINE m == bet.amount
           n == bet.seen.cost
<1>2. /\ bet \in Bets /\ bet.player \in Players /\ bet.id \in OrderIds /\ m \in Int /\ n \in Int
      /\ bet.seen.buyer \in Players \cup {None} /\ TRUE \in BOOLEAN
  BY <1>1, BetIs DEF Inv
<1>3. /\ MoneySum(Wealths') = MoneySum(Wealths) + 0 /\ SumFunction(Claims) \in Int
      /\ BidGap = 0 /\ Advance' = Advance /\ Advance \in Int
  <2>1. Wealths' = Wealths /\ MoneySum(Wealths) \in Int /\ SumFunction(Claims) \in Int /\ Advance \in Int
    BY <1>1, WealthKept, WealthsAre, WealthSums, ClaimsAre, GapsAre DEF Inv
  <2> QED
    BY <1>1, <2>1 DEF BidGap, Swapped, Advance, finalVars
<1>4. TypeInv /\ (incidents' = {} => incidents = {})
  BY <1>1 DEF Inv
<1>5. CASE ~Holds(bet.id, bet.seen.buyer, n)
  <2>1. /\ bet' = None /\ UNCHANGED orders
        /\ completions' = Append(completions, Lost(bet.player))
    BY <1>5 DEF CasBet, Answer
  <2>2. SumFunction(Claims)' = SumFunction(Claims) + 0
    BY <1>1, <1>2, <1>4, <2>1, LostIs, ClaimsAppend
  <2>3. BidGap' = BidGap /\ SumFunction(Claims)' = SumFunction(Claims) /\ Wealths' = Wealths
    BY <1>1, <1>3, <2>1, <2>2, WealthKept DEF BidGap, Swapped
  <2> QED
    BY <1>1, <1>3, <1>4, <2>1, <2>3, MoneyStay
<1>6. CASE Holds(bet.id, bet.seen.buyer, n)
  <2> DEFINE b == m - Stake(orders[bet.id])
  <2>1. /\ orders' = [orders EXCEPT ![bet.id] = Rebid(@, m, bet.player, TRUE)]
        /\ Open(bet.id) /\ orders[bet.id].buyer = bet.seen.buyer /\ orders[bet.id].cost = n
    BY <1>6 DEF CasBet, Holds
  <2>2. StakeSum(orders') = StakeSum(orders) + b
    BY <1>2, <1>4, <2>1, StakeRebid
  <2>3. CASE bet.seen.buyer # None
    <3>1. bet' = [bet EXCEPT !.step = "refund"] /\ UNCHANGED completions
      BY <1>6, <2>3 DEF CasBet
    <3>2. bet'.step = "refund" /\ bet'.amount = m /\ bet'.seen.cost = n /\ bet' # None
      BY <1>2, <3>1, NoneAssumption DEF Bets
    <3>3. b = m - n /\ BidGap' = n - m /\ b \in Int
      BY <1>2, <2>1, <2>3, <3>2 DEF Stake, Open, BidGap, Swapped
    <3>4. SumFunction(Claims)' = SumFunction(Claims) /\ Wealths' = Wealths
      BY <1>1, <1>4, <3>1, ClaimsKept, WealthKept
    <3>5. b + (BidGap' - BidGap) + (Advance' - Advance) = 0
      BY <1>2, <1>3, <3>3
    <3> HIDE DEF b, m, n
    <3> QED
      BY <1>4, <2>2, <3>3, <3>4, <3>5, LotsBalance
  <2>4. CASE bet.seen.buyer = None
    <3>1. bet' = None /\ completions' = Append(completions, Won(bet))
      BY <1>6, <2>4 DEF CasBet, Answer
    <3> DEFINE c == Owed(Won(bet))
    <3>2. c = 0 - m /\ c \in Int /\ Won(bet) \in Completions
      BY <1>2, <2>4, WonIs
    <3>3. b = m /\ b \in Int /\ BidGap' = 0
      BY <1>2, <2>1, <2>4, <3>1 DEF Stake, BidGap, Swapped
    <3>4. SumFunction(Claims)' = SumFunction(Claims) + c
      BY <1>1, <1>4, <3>1, <3>2, ClaimsAppend
    <3>5. 0 + b + c + (BidGap' - BidGap) + (Advance' - Advance) = 0
      BY <1>2, <1>3, <3>2, <3>3
    <3> HIDE DEF b, c, m, n
    <3> QED
      BY <1>3, <1>4, <2>2, <3>2, <3>3, <3>4, <3>5, MoneyBalance
  <2> QED
    BY <2>3, <2>4
<1> QED
  BY <1>5, <1>6

LEMMA MoneyRefund ==
    ASSUME Inv, ClosedMarket, [Next]_vars, TypeInv', MoneyBooks, RefundPrevious
    PROVE  MoneyBooks'
<1> DEFINE m == bet.amount
           n == bet.seen.cost
           q == bet.seen.buyer
           a == IF Online(q) THEN 0 ELSE n
           c == Owed(Won(bet))
<1>1. /\ bet # None /\ bet.step = "refund" /\ bet' = None
      /\ UNCHANGED <<orders, finalVars, incidents>>
      /\ completions' = Append(completions, Won(bet))
      /\ \A x \in Players : Online(x)' <=> Online(x)
  BY OnlineStays DEF RefundPrevious, Answer, history, Inv
<1>2. TypeInv /\ bet \in Bets /\ m \in Int /\ n \in Int /\ q \in Players
  BY <1>1, BetIs DEF Inv, BidInv, SwapIsKnown, Swapped
<1>3. Won(bet) \in Completions /\ c = (IF Online(q) THEN n ELSE 0) - m
  BY <1>2, WonIs, PlayersAssumption
<1>4. BidGap = n - m /\ BidGap' = 0 /\ Advance' = Advance /\ Advance \in Int
  <2>1. Advance \in Int
    BY <1>2, GapsAre
  <2> QED
    BY <1>1, <2>1 DEF BidGap, Swapped, Advance, finalVars
<1>5. Wealths' = IF Online(q) THEN Wealths ELSE [Wealths EXCEPT ![q] = Earn(@, n)]
  BY <1>2, WealthRefund
<1>6. Wealths \in [Players -> Wealth] /\ MoneySum(Wealths) \in Int
  BY <1>2, WealthsAre, WealthSums
<1>7. SumFunction(Claims)' = SumFunction(Claims) + c
  BY <1>1, <1>2, <1>3, ClaimsAppend
<1>8. a \in Int /\ c \in Int /\ a + 0 + c + (BidGap' - BidGap) + (Advance' - Advance) = 0
  BY <1>2, <1>3, <1>4
<1> HIDE DEF c, m, n, q
<1>9. MoneySum(Wealths') = MoneySum(Wealths) + a
  <2>1. MoneySum([Wealths EXCEPT ![q] = Earn(@, n)]) = MoneySum(Wealths) + n
    BY <1>2, <1>6, EarnSum
  <2> QED
    BY <1>5, <1>6, <2>1
<1> HIDE DEF a
<1> QED
  BY <1>1, <1>2, <1>7, <1>8, <1>9, StakeKept, MoneyBalance

LEMMA MoneyRollback ==
    ASSUME Inv, ClosedMarket, [Next]_vars, TypeInv', MoneyBooks, RollbackBet
    PROVE  MoneyBooks'
<1> DEFINE m == bet.amount
           n == bet.seen.cost
<1>1. /\ bet # None /\ bet.step = "rollback" /\ bet' = None
      /\ UNCHANGED <<entity, rows, finalVars>> /\ incidents \subseteq incidents'
      /\ completions' = Append(completions, Lost(bet.player))
      /\ \A x \in Players : Online(x)' <=> Online(x)
  BY OnlineStays DEF RollbackBet, Answer, Record, gameVars, Inv
<1>2. /\ TypeInv /\ m \in Int /\ n \in Int /\ bet.seen.buyer \in Players /\ bet.player \in Players
      /\ bet.id \in OrderIds /\ bet.seen.fresh \in BOOLEAN
      /\ Open(bet.id) => Holds(bet.id, bet.player, m)
      /\ ~Open(bet.id) /\ incidents = {} => m = n
  BY <1>1, BetIs DEF Inv, BidInv, SwapIsKnown, Swapped, Holds
<1>3. incidents' = {} => incidents = {}
  BY <1>1
<1>4. /\ MoneySum(Wealths') = MoneySum(Wealths) + 0 /\ Advance' = Advance /\ Advance \in Int
      /\ BidGap = n - m /\ BidGap' = 0 /\ SumFunction(Claims) \in Int
  <2>1. Wealths' = Wealths /\ MoneySum(Wealths) \in Int /\ SumFunction(Claims) \in Int /\ Advance \in Int
    BY <1>1, <1>2, WealthKept, WealthsAre, WealthSums, ClaimsAre, GapsAre
  <2> QED
    BY <1>1, <2>1 DEF BidGap, Swapped, Advance, finalVars
<1>5. SumFunction(Claims)' = SumFunction(Claims) + 0
  BY <1>1, <1>2, LostIs, ClaimsAppend
<1>6. CASE /\ Holds(bet.id, bet.player, m)
           /\ orders' = [orders EXCEPT ![bet.id] = Rebid(@, n, bet.seen.buyer, bet.seen.fresh)]
  <2> DEFINE b == n - Stake(orders[bet.id])
  <2>1. Open(bet.id) /\ Stake(orders[bet.id]) = m
    BY <1>2, <1>6, PlayersAssumption DEF Holds, Open, Stake
  <2>2. StakeSum(orders') = StakeSum(orders) + b
    BY <1>2, <1>6, <2>1, StakeRebid
  <2>3. b \in Int /\ b + (BidGap' - BidGap) + (Advance' - Advance) = 0
    BY <1>2, <1>4, <2>1
  <2>4. SumFunction(Claims)' = SumFunction(Claims) /\ Wealths' = Wealths
    BY <1>1, <1>4, <1>5, WealthKept
  <2> HIDE DEF b
  <2> QED
    BY <1>2, <1>3, <2>2, <2>3, <2>4, LotsBalance
<1>7. CASE ~Holds(bet.id, bet.player, m) /\ UNCHANGED orders
  <2>1. /\ incidents' = {} => BidGap' = BidGap /\ incidents' = incidents
        /\ SumFunction(Claims)' = SumFunction(Claims) /\ Wealths' = Wealths
    <3>1. ~Open(bet.id)
      BY <1>2, <1>7
    <3>2. incidents' = {} => m = n /\ incidents' = incidents
      BY <1>2, <1>3, <3>1
    <3>3. incidents' = {} => BidGap' = BidGap
      BY <1>2, <1>4, <3>2
    <3> QED
      BY <1>1, <1>4, <1>5, <3>2, <3>3, WealthKept
  <2>2. CASE incidents' = {}
    BY <1>2, <1>4, <1>7, <2>1, <2>2, MoneyStay
  <2>3. CASE incidents' # {}
    BY <2>3 DEF MoneyBooks
  <2> QED
    BY <2>2, <2>3
<1>8. CASE Record("rollback")
  BY <1>8 DEF Record, MoneyBooks
<1> QED
  BY <1>6, <1>7, <1>8 DEF RollbackBet

LEMMA MoneyCompletion ==
    ASSUME Inv, ClosedMarket, [Next]_vars, TypeInv', MoneyBooks, ApplyCompletion
    PROVE  MoneyBooks'
<1> DEFINE c == Head(completions)
           n == -c.amount
           q == c.player
           charged == [Wealths EXCEPT ![q] = Earn(@, n)]
           a == Owed(c)
           k == -a
<1>1. /\ completions # <<>> /\ completions' = Tail(completions)
      /\ UNCHANGED <<orders, bet, finalVars, incidents>>
      /\ \A x \in Players : Online(x)' <=> Online(x)
  BY OnlineStays DEF ApplyCompletion, history, Inv
<1>2. /\ TypeInv /\ q \in Players /\ n \in Int /\ c.refund \in Int /\ c \in Completions
      /\ ~c.won => Wealths' = Wealths
      /\ c.won => Wealths' = IF c.previous # None /\ Online(c.previous)
                             THEN [charged EXCEPT ![c.previous] = Earn(@, c.refund)]
                             ELSE charged
      /\ c.previous # None => c.previous \in Players
  BY WealthCompletion DEF Inv
<1>3. a = (IF c.won THEN (IF c.previous # None /\ Online(c.previous) THEN c.refund ELSE 0) + n
                    ELSE 0)
      /\ a \in Int
  <2>1. c.amount \in Int
    BY <1>2 DEF Completions
  <2> QED
    BY <1>2, <2>1 DEF Owed
<1>4. SumFunction(Claims) = a + SumFunction(Claims)'
  BY <1>1, <1>2, ClaimsTail
<1>5. TypeInv' => (SumFunction(Claims) \in Int)'
  BY ClaimsAre, PTL
<1>6. SumFunction(Claims)' = SumFunction(Claims) + k /\ k \in Int
  BY <1>3, <1>4, <1>5
<1>7. Wealths \in [Players -> Wealth] /\ MoneySum(Wealths) \in Int
  BY <1>2, WealthsAre, WealthSums
<1>8. BidGap' = BidGap /\ Advance' = Advance /\ BidGap \in Int /\ Advance \in Int
  <2>1. BidGap \in Int /\ Advance \in Int
    BY <1>2, GapsAre
  <2> QED
    BY <1>1, <2>1 DEF BidGap, Swapped, Advance, finalVars
<1>9. a + 0 + k + (BidGap' - BidGap) + (Advance' - Advance) = 0
  BY <1>3, <1>8
<1> HIDE DEF c, n, q, a, k
<1>10. MoneySum(Wealths') = MoneySum(Wealths) + a
  <2>1. charged \in [Players -> Wealth] /\ MoneySum(charged) = MoneySum(Wealths) + n
    BY <1>2, <1>7, EarnSum
  <2> HIDE DEF charged
  <2>2. CASE ~c.won
    BY <1>2, <1>3, <1>7, <2>2
  <2>3. CASE c.won /\ c.previous # None /\ Online(c.previous)
    <3> DEFINE p == c.previous
               m == c.refund
    <3>1. /\ p \in Players /\ m \in Int /\ a = m + n
          /\ Wealths' = [charged EXCEPT ![p] = Earn(@, m)]
      BY <1>2, <1>3, <2>3
    <3> HIDE DEF p, m
    <3>2. MoneySum([charged EXCEPT ![p] = Earn(@, m)]) = MoneySum(charged) + m
      BY ZenonT(30), <2>1, <3>1, EarnSum
    <3> QED
      BY <1>2, <1>7, <2>1, <3>1, <3>2
  <2>4. CASE c.won /\ ~(c.previous # None /\ Online(c.previous))
    BY <1>2, <1>3, <1>7, <2>1, <2>4
  <2> QED
    BY <2>2, <2>3, <2>4
<1> QED
  BY <1>1, <1>2, <1>3, <1>6, <1>9, <1>10, StakeKept, MoneyBalance

\* A payment of a player that a gap of the finalizer answers for.
LEMMA PayBalance ==
    ASSUME TypeInv, TypeInv', MoneyBooks, incidents' = {} => incidents = {},
           NEW a \in Int, NEW b \in Int, MoneySum(Wealths') = MoneySum(Wealths) + a,
           incidents' = {} => a + b + (Advance' - Advance) = 0,
           StakeSum(orders') = StakeSum(orders) + b,
           SumFunction(Claims)' = SumFunction(Claims), BidGap' = BidGap
    PROVE  MoneyBooks'
<1> DEFINE z == 0
<1>1. SumFunction(Claims) \in Int /\ BidGap \in Int /\ Advance \in Int
  BY ClaimsAre, GapsAre
<1>2. TypeInv' => (Advance \in Int)'
  BY GapsAre, PTL
<1>3. /\ z \in Int /\ SumFunction(Claims)' = SumFunction(Claims) + z
      /\ incidents' = {} => a + b + z + (BidGap' - BidGap) + (Advance' - Advance) = 0
  BY <1>1, <1>2
<1> HIDE DEF z
<1> QED
  BY <1>3, MoneyBalance

\* The lot of a delivery leaves the table with the money it holds.
LEMMA StakeRemove ==
    ASSUME TypeInv, TypeInv', stage # "idle", Remove(job)
    PROVE  StakeSum(orders') = StakeSum(orders) + (0 - Stake(orders[job.id]))
<1>1. orders \in [OrderIds -> Orders \cup {None}] /\ orders' \in [OrderIds -> Orders \cup {None}]
  BY StakesAre
<1>2. job.id \in OrderIds
  BY JobIs
<1>3. orders'[job.id] = None /\ \A x \in OrderIds \ {job.id} : orders'[x] = orders[x]
  BY <1>1, <1>2 DEF Remove
<1>4. StakeSum(orders') = StakeSum(orders) + (Stake(orders'[job.id]) - Stake(orders[job.id]))
  BY <1>1, <1>2, <1>3, StakeUpdate
<1>5. Stake(orders'[job.id]) = 0
  BY <1>3 DEF Stake
<1> QED
  BY <1>4, <1>5

LEMMA MoneyFinalize ==
    ASSUME Inv, ClosedMarket, [Next]_vars, TypeInv', MoneyBooks,
           FinalizeOffline \/ CreditSeller \/ CreditBuyer \/ RevokeSeller \/ DeleteOrder
    PROVE  MoneyBooks'
<1> DEFINE n == job.order.cost
           m == -n
           seller == job.order.seller
<1>1. /\ UNCHANGED <<bet, completions>> /\ incidents \subseteq incidents' /\ stage # "idle"
      /\ \A q \in Players : Online(q)' <=> Online(q)
  BY OnlineStays DEF FinalizeOffline, CreditSeller, CreditBuyer, RevokeSeller, DeleteOrder, Remove,
     Record, workerVars, history, Inv
<1>2. TypeInv /\ (incidents' = {} => incidents = {})
  BY <1>1 DEF Inv
<1>3. /\ seller \in Players /\ n \in Int /\ m \in Int /\ job.id \in OrderIds
      /\ job.order.buyer \in Players /\ job.order.num \in Int
  BY <1>1, <1>2, JobIs
<1>4. SumFunction(Claims)' = SumFunction(Claims) /\ BidGap' = BidGap /\ BidGap \in Int
  BY <1>1, <1>2, ClaimsKept, GapsAre DEF BidGap, Swapped
<1>5. Wealths \in [Players -> Wealth] /\ MoneySum(Wealths) \in Int
  BY <1>2, WealthsAre, WealthSums
<1>6. ASSUME UNCHANGED orders
      PROVE  StakeSum(orders') = StakeSum(orders) + 0 /\ StakeSum(orders') = StakeSum(orders)
             /\ \A o \in OrderIds : Stake(orders'[o]) = Stake(orders[o])
  BY <1>2, <1>6, StakeKept
<1>7. CASE CreditSeller
  <2>1. stage = "seller" /\ UNCHANGED <<orders, incidents>>
    BY <1>7 DEF CreditSeller, history
  <2>2. CASE CreditMoney(seller, n) /\ stage' = "buyer" /\ UNCHANGED job
    <3> DEFINE z == 0
    <3>1. Wealths' = [Wealths EXCEPT ![seller] = Earn(@, n)]
      BY <1>2, <1>3, <2>2, WealthCreditMoney
    <3>2. z \in Int /\ n + z + (Advance' - Advance) = 0 /\ StakeSum(orders') = StakeSum(orders) + z
      BY <1>3, <1>6, <2>1, <2>2 DEF Advance
    <3> HIDE DEF n, m, seller, z
    <3>3. MoneySum(Wealths') = MoneySum(Wealths) + n
      BY <1>3, <1>5, <3>1, EarnSum
    <3> QED
      BY <1>2, <1>3, <1>4, <3>2, <3>3, PayBalance
  <2>3. CASE UNCHANGED <<entity, rows>> /\ stage' = "idle"
    <3>1. Advance' = Advance /\ Wealths' = Wealths
      BY <2>1, <2>3, WealthKept DEF Advance
    <3> QED
      BY <1>2, <1>4, <1>6, <2>1, <3>1, MoneyStay
  <2> QED
    BY <1>7, <2>2, <2>3 DEF CreditSeller, CreditFails, Finish, gameVars
<1>8. CASE CreditBuyer
  <2>1. /\ stage = "buyer" /\ stage' \in {"delete", "revoke"} /\ UNCHANGED <<orders, incidents, job>>
        /\ CreditItems(job.order.buyer, job.order.num) \/ UNCHANGED <<entity, rows>>
    BY <1>8 DEF CreditBuyer, CreditFails, gameVars
  <2>2. Advance' = Advance
    BY <2>1 DEF Advance
  <2>3. MoneySum(Wealths') = MoneySum(Wealths)
    <3>1. CASE CreditItems(job.order.buyer, job.order.num)
      <4> DEFINE p == job.order.buyer
                 k == job.order.num
      <4>1. p \in Players /\ k \in Int /\ Wealths' = [Wealths EXCEPT ![p] = Receive(@, k)]
        BY <1>2, <1>3, <3>1, WealthCreditItems
      <4> HIDE DEF p, k
      <4> QED
        BY <1>5, <4>1, ReceiveSum
    <3> QED
      BY <2>1, <3>1, WealthKept
  <2> QED
    BY <1>2, <1>4, <1>6, <2>1, <2>2, <2>3, MoneyStay
<1>9. CASE RevokeSeller
  <2>1. stage = "revoke" /\ stage' = "idle" /\ UNCHANGED orders
    BY <1>9 DEF RevokeSeller, Finish
  <2>2. CASE CreditMoney(seller, m)
    <3> DEFINE z == 0
    <3>1. Wealths' = [Wealths EXCEPT ![seller] = Earn(@, m)]
      BY <1>2, <1>3, <2>2, WealthCreditMoney
    <3>2. z \in Int /\ m + z + (Advance' - Advance) = 0 /\ StakeSum(orders') = StakeSum(orders) + z
      BY <1>3, <1>6, <2>1, <2>2 DEF Advance
    <3> HIDE DEF n, m, seller, z
    <3>3. MoneySum(Wealths') = MoneySum(Wealths) + m
      BY <1>3, <1>5, <3>1, EarnSum
    <3> QED
      BY <1>2, <1>3, <1>4, <3>2, <3>3, PayBalance
  <2>3. CASE Record("revoke")
    BY <2>3 DEF Record, MoneyBooks
  <2> QED
    BY <1>9, <2>2, <2>3 DEF RevokeSeller
<1>10. CASE DeleteOrder
  <2>1. stage = "delete" /\ stage' = "idle" /\ UNCHANGED <<entity, rows>>
    BY <1>10 DEF DeleteOrder, Finish, gameVars
  <2>2. CASE Remove(job) /\ Holds(job.id, job.order.buyer, n)
    <3>1. Stake(orders[job.id]) = n
      BY <1>3, <2>2, PlayersAssumption DEF Holds, Open, Stake
    <3>2. StakeSum(orders') = StakeSum(orders) + (0 - Stake(orders[job.id]))
      BY <1>1, <1>2, <2>2, StakeRemove
    <3>3. StakeSum(orders') = StakeSum(orders) + m
      BY <1>3, <3>1, <3>2
    <3>4. m + (BidGap' - BidGap) + (Advance' - Advance) = 0
      BY <1>3, <1>4, <2>1 DEF Advance
    <3>5. Wealths' = Wealths
      BY <2>1, WealthKept
    <3> HIDE DEF n, m, seller
    <3> QED
      BY <1>2, <1>3, <1>4, <3>3, <3>4, <3>5, LotsBalance
  <2>3. CASE Record("delete") \/ Record("overtaken")
    BY <2>3 DEF Record, MoneyBooks
  <2> QED
    BY <1>10, <2>2, <2>3 DEF DeleteOrder, Remove
<1>11. CASE FinalizeOffline
  <2>1. /\ stage = "offline" /\ stage' = "idle" /\ UNCHANGED entity /\ job \in Snapshots
        /\ ~Online(job.order.buyer) /\ ~Online(seller)
    BY <1>1, <1>2, <1>11, JobIs
    DEF FinalizeOffline, Finish, gameVars, Inv, BidInv, BiddersAreOnline
  <2>2. Advance' = Advance /\ Advance' = 0 /\ Advance = 0
    BY <2>1 DEF Advance
  <2>3. CASE Unchanged(job) /\ rows' = CreditedOffline(job) /\ Remove(job)
    <3> DEFINE p == job.order.buyer
               k == job.order.num
               one == [Wealths EXCEPT ![p] = Receive(@, k)]
    <3>1. Wealths' = [one EXCEPT ![seller] = Earn(@, n)] /\ p \in Players /\ k \in Int
      BY <1>2, <1>3, <2>1, <2>3, WealthOffline
    <3>2. Stake(orders[job.id]) = n
      <4>1. orders[job.id] = job.order /\ job.order # None
        BY <1>1, <1>2, <2>3, JobIs, NoneAssumption DEF Unchanged
      <4> QED
        BY <1>3, <4>1, PlayersAssumption DEF Stake
    <3>3. StakeSum(orders') = StakeSum(orders) + (0 - Stake(orders[job.id]))
      BY <1>1, <1>2, <2>3, StakeRemove
    <3>4. StakeSum(orders') = StakeSum(orders) + m /\ n + m + (Advance' - Advance) = 0
      BY <1>3, <2>2, <3>2, <3>3
    <3> HIDE DEF n, m, seller, p, k
    <3>5. one \in [Players -> Wealth] /\ MoneySum(one) = MoneySum(Wealths)
      BY <1>5, <3>1, ReceiveSum
    <3> HIDE DEF one
    <3>6. MoneySum(Wealths') = MoneySum(Wealths) + n
      <4>1. seller \in Players /\ n \in Int
        BY <1>3
      <4>2. MoneySum([one EXCEPT ![seller] = Earn(@, n)]) = MoneySum(one) + n
        BY ZenonT(30), <3>5, <4>1, EarnSum
      <4> QED
        BY <3>1, <3>5, <4>2
    <3> QED
      BY <1>2, <1>3, <1>4, <3>4, <3>6, PayBalance
  <2>4. CASE UNCHANGED <<rows, orders, incidents>>
    <3>1. Wealths' = Wealths
      BY <2>1, <2>4, WealthKept
    <3> QED
      BY <1>2, <1>4, <1>6, <2>2, <2>4, <3>1, MoneyStay
  <2> QED
    BY <1>11, <2>3, <2>4 DEF FinalizeOffline, history
<1> QED
  BY <1>7, <1>8, <1>9, <1>10, <1>11

LEMMA MoneyInit == Init => MoneyBooks
<1> SUFFICES ASSUME Init PROVE MoneyBooks
  OBVIOUS
<1>1. TypeInv /\ Wealths \in [Players -> Wealth]
  BY TypeInit, WealthsAre
<1>2. PICK old \in OldLots :
        /\ Wealths = [p \in Players |-> [money |-> StartMoney - Paid(old, p),
                                         items |-> StartItems - Offered(old, p)]]
        /\ orders = [o \in OrderIds |-> IF o = 1 THEN old ELSE None]
        /\ bet = None /\ completions = <<>> /\ stage = "idle"
        /\ old # None => old.cost \in Int /\ old.buyer \in Players \cup {None}
  BY FirstState
<1> DEFINE n == Stake(old)
           f == [p \in Players |-> Wealths[p].money]
           t == [o \in OrderIds |-> Stake(orders[o])]
<1>3. SumFunction(Claims) = 0 /\ BidGap = 0 /\ Advance = 0
  <2>1. SumFunction(Claims) = 0
    BY <1>2, SumOfNone DEF Claims
  <2> QED
    BY <1>2, <2>1 DEF BidGap, Swapped, Advance
<1>4. SumFunction(Escrows) = n /\ n \in Int
  <2>1. orders \in [OrderIds -> Orders \cup {None}] /\ 1 \in OrderIds
    BY <1>1, BoundsAssumption DEF TypeInv, TypeOK, OrderIds
  <2>2. t \in [OrderIds -> Int]
    BY <2>1, StakeIsInt
  <2>3. t[1] = n /\ \A o \in OrderIds \ {1} : t[o] = 0
    BY <1>2, <2>1 DEF Stake
  <2>4. SumFunction(Escrows) = SumFunction(t)
    BY EscrowsAre DEF StakeSum
  <2>5. n \in Int
    BY <2>1, <2>2, <2>3
  <2> HIDE DEF t, n
  <2> QED
    BY <2>2, <2>3, <2>4, <2>5, FirstLot
<1>5. /\ f \in [Players -> Int]
      /\ \A p \in Players : f[p] = StartMoney - Paid(old, p)
  <2>1. f \in [Players -> Int]
    BY <1>1 DEF Wealth
  <2> QED
    BY <1>2, <2>1
<1>6. StartMoney \in Int /\ TotalMoney \in Int /\ TotalMoney = StartMoney * Cardinality(Players)
  <2>1. Cardinality(Players) \in Nat
    BY PlayersAssumption, FS_CardinalityType
  <2> QED
    BY <2>1, WealthAssumption DEF TotalMoney
<1> HIDE DEF f
<1>7. SumFunction(f) = TotalMoney - n
  <2>1. CASE old # None /\ old.buyer # None
    <3> DEFINE a == old.buyer
    <3>1. a \in Players /\ n = old.cost
      BY <1>2, <2>1 DEF Stake
    <3>2. f[a] = StartMoney - n /\ \A q \in Players \ {a} : f[q] = StartMoney
      BY <1>5, <1>6, <2>1, <3>1 DEF Paid
    <3> HIDE DEF a, n
    <3>3. SumFunction(f) = StartMoney * Cardinality(Players) + (f[a] - StartMoney)
      BY <1>5, <1>6, <3>1, <3>2, FirstSum
    <3>4. SumFunction(f) = TotalMoney + ((StartMoney - n) - StartMoney)
      BY <1>6, <3>2, <3>3
    <3> QED
      BY <1>4, <1>6, <3>4
  <2>2. CASE ~(old # None /\ old.buyer # None)
    <3>1. n = 0
      BY <2>2 DEF Stake
    <3>2. f = [p \in Players |-> StartMoney]
      BY <1>5, <1>6, <2>2, PlayersAssumption DEF Paid
    <3>3. SumFunction(f) = StartMoney * Cardinality(Players)
      BY <1>6, <3>2, SumOfConst, PlayersAssumption
    <3> QED
      BY <1>6, <3>1, <3>3
  <2> QED
    BY <2>1, <2>2
<1>8. SumFunction(Purses) = SumFunction(f)
  BY <1>1, WealthsAre DEF MoneySum, f
<1> HIDE DEF n
<1> QED
  BY <1>3, <1>4, <1>6, <1>7, <1>8 DEF MoneyBooks

LEMMA MoneyStep == Inv /\ ClosedMarket /\ MoneyBooks /\ [Next]_vars => MoneyBooks'
<1> SUFFICES ASSUME Inv, ClosedMarket, MoneyBooks, [Next]_vars PROVE MoneyBooks'
  OBVIOUS
<1>1. TypeInv'
  BY TypeStep DEF Inv
<1>2. CASE UNCHANGED vars
  BY <1>1, <1>2, MoneyAside
<1>3. CASE PlayerStep \/ \E p \in Players : FlushDirty(p)
  <2>1. \A p \in Players : ~Logout(p) /\ ~Login(p)
    BY DEF ClosedMarket, Logout, Login
  <2> QED
    BY <1>1, <1>3, <2>1, MoneyAside DEF PlayerStep
<1>4. CASE WorkerStep \/ ApplyCompletion \/ \E o \in OrderIds : Ripen(o)
  BY <1>1, <1>4, MoneyAside, MoneyCasBet, MoneyRefund, MoneyRollback, MoneyCompletion
  DEF WorkerStep
<1>5. CASE FinalizeStep
  BY <1>1, <1>5, MoneyAside, MoneyFinalize DEF FinalizeStep
<1> QED
  BY <1>2, <1>3, <1>4, <1>5 DEF Next

\* Once all is quiet only the purses and the bids of open lots are left.
LEMMA MoneySettles == TypeInv /\ MoneyBooks => MoneyConserved
<1> SUFFICES ASSUME TypeInv, MoneyBooks, Quiet, incidents = {}
             PROVE  SumFunction(Purses) + SumFunction(Escrows) = TotalMoney
  BY DEF MoneyConserved
<1>1. SumFunction(Claims) = 0 /\ BidGap = 0 /\ Advance = 0
  <2>1. SumFunction(Claims) = 0
    BY SumOfNone DEF Claims, Quiet
  <2> QED
    BY <2>1 DEF Quiet, BidGap, Swapped, Advance
<1>2. SumFunction(Purses) \in Int /\ SumFunction(Escrows) \in Int
  BY WealthsAre, WealthSums, EscrowsAre, StakeIsInt DEF TypeInv, TypeOK
<1> QED
  BY <1>1, <1>2 DEF MoneyBooks

\* In a closed market no money and no item is made or lost, for any number of
\* players, lots, bids and failures: what auction_bet takes and refunds, what
\* AuctionBetCompleted charges and what finalize_ready_order pays and hands
\* over always adds up to what there was at the start.
THEOREM BooksAlwaysBalance == ClosedMarket => (Spec => []BooksBalance)
<1>1. Inv /\ ClosedMarket /\ ItemsConserved /\ MoneyBooks /\ [Next]_vars
          => Inv' /\ ItemsConserved' /\ MoneyBooks'
  BY TypeStep, LotStep, BidStep, ItemsStep, MoneyStep DEF Inv
<1>2. Init /\ ClosedMarket => Inv /\ ItemsConserved /\ MoneyBooks
  BY TypeInit, LotInit, BidInit, ItemsInit, MoneyInit DEF Inv
<1>3. Inv /\ ItemsConserved /\ MoneyBooks => BooksBalance
  BY MoneySettles DEF BooksBalance, Inv
<1> SUFFICES ASSUME ClosedMarket PROVE Spec => []BooksBalance
  OBVIOUS
<1>4. Inv /\ ItemsConserved /\ MoneyBooks /\ [Next]_vars
          => Inv' /\ ItemsConserved' /\ MoneyBooks'
  BY <1>1
<1>5. Init => Inv /\ ItemsConserved /\ MoneyBooks
  BY <1>2
<1> QED
  BY <1>3, <1>4, <1>5, PTL DEF Spec
==============================================================================
