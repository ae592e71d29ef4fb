------------------------------- MODULE Market -------------------------------
(***************************************************************************)
(* src/xch/orderbook.cpp: a market, its two order books and the clients    *)
(* that call it.  A region under the market's _mutex is one action, but    *)
(* for close(), which looks at the order under the order's own lock and    *)
(* writes it under that lock again.  resolve_orderbook looks for a match   *)
(* outside the market's lock, one price level at a time, so each look is   *)
(* an action of its own, and so are each write of the two orders and each  *)
(* of the four transactions that settle a match.                           *)
(*                                                                         *)
(* A level of a book holds its orders by open time, which is the order of  *)
(* their ids here.  A level whose last order is removed stays in the map.  *)
(* Volumes and prices are integers: a unit of volume is the epsilon, 0.001,*)
(* below which an order counts as filled, and also the fee, 0.1 percent,   *)
(* of a volume of 1.0.  The accounts are those of Accounts.tla, of which   *)
(* only what a market sees is kept: whether a transaction is posted.       *)
(***************************************************************************)
EXTENDS Integers, FiniteSets

CONSTANTS
    Clients,       \* threads that call the market
    OrdersOf,      \* OrdersOf[t]: the orders t may place
    CallsOf,       \* CallsOf[t]: the other calls t makes
    Accounts,      \* accounts orders are placed for
    Opened,        \* accounts init_account has made for those who trade
    Prices,        \* prices an order may have
    Volumes,       \* volumes an order may have, in thousandths
    Assets,        \* asset ids the market may be set to
    MaxOrders      \* bound: orders placed in a behaviour

Sides == {"ASK", "BID"}
Terms == [type: Sides, account: Accounts, price: Prices, volume: Volumes]

ASSUME CallsAssumption ==
    /\ OrdersOf \in [Clients -> SUBSET Terms]
    /\ CallsOf \in [Clients -> SUBSET {"cancel", "remove", "set asset"}]
ASSUME ClientsAssumption == IsFiniteSet(Clients)
ASSUME PricesAssumption == Prices \subseteq Nat \ {0}
ASSUME VolumesAssumption == Volumes \subseteq Nat \ {0}
ASSUME MaxOrdersAssumption == MaxOrders \in Nat \ {0}

\* The account a market makes for itself, to collect its fees with.
MarketAccount == "market"
ASSUME OpenedAssumption == MarketAccount \notin Opened

VARIABLES
    orders,       \* every order object: its terms, what is left, closed or not
    book,         \* the keys of _orders; each is in its side's book too
    levels,       \* the keys of _ask_orderbook and of _bid_orderbook
    order_asset,  \* _order_asset_id
    posted,       \* posted[k][b]: k-th transactions posted for trades of bid b
    thrown,       \* an add_order has ended with an exception
    pc,           \* where each client is
    loc,          \* its locals
    torn,         \* clients scanning a book that another one changed meanwhile
    crashed       \* the process dereferenced a null order or a freed node

vars == <<orders, book, levels, order_asset, posted, thrown, pc, loc, torn, crashed>>

OrderIds == 1..MaxOrders
NoOrder == 0
NoTerms == [type |-> "INVALID_ORDER"]

Placed == {o \in OrderIds : orders[o].terms # NoTerms}
Price(o) == orders[o].terms.price
Account(o) == orders[o].terms.account
IsOpen(o) == ~orders[o].closed

\* Where a client is that calls add_order: before it has a match, while it
\* writes the orders of one, and while it settles it.
Filling == {"fill ask", "fill bid", "close ask", "shut ask", "close bid", "shut bid"}
Settling == {"settle 1", "settle 2", "settle 3", "settle 4"}
Matched == {"match"} \cup Filling \cup Settling
Labels == {"idle", "insert", "begin", "ask", "bid first", "bid", "cancel", "remove",
           "removing", "set asset"} \cup Matched

\* The order of a client that is between its construction and its entry, and
\* an order that has been placed on one side.
Pending(t) == loc[t].mine \in OrderIds /\ orders[loc[t].mine].terms \in Terms
OfSide(o, side) == o \in OrderIds /\ orders[o].terms \in Terms
                   /\ orders[o].terms.type = side

NoLocals == [mine |-> NoOrder, ask |-> NoOrder, bid |-> NoOrder, at |-> 0, dv |-> 0,
             newAsk |-> 0, newBid |-> 0, ids |-> {}, reset |-> FALSE]

TypeOK ==
    /\ orders \in [OrderIds ->
         {[terms |-> NoTerms, available |-> 0, closed |-> FALSE]}
           \cup [terms: Terms, available: Nat, closed: BOOLEAN]]
    /\ book \subseteq OrderIds
    /\ levels \in [Sides -> SUBSET Prices]
    /\ order_asset \in Assets
    /\ posted \in [1..4 -> [OrderIds -> Nat]]
    /\ thrown \in BOOLEAN
    /\ pc \in [Clients -> Labels]
    /\ loc \in [Clients -> [mine: OrderIds \cup {NoOrder}, ask: OrderIds \cup {NoOrder},
                            bid: OrderIds \cup {NoOrder}, at: Prices \cup {0}, dv: Int,
                            newAsk: Nat, newBid: Nat, ids: SUBSET OrderIds, reset: BOOLEAN]]
    /\ torn \subseteq Clients
    /\ crashed \in BOOLEAN
    /\ \A o \in book :
         orders[o].terms \in Terms /\ Price(o) \in levels[orders[o].terms.type]
    /\ \A t \in Clients :
         /\ pc[t] = "insert" => Pending(t)
         /\ pc[t] \in {"bid first", "bid"} \cup Matched => OfSide(loc[t].ask, "ASK")
         /\ pc[t] \in Matched => OfSide(loc[t].bid, "BID")

Init ==
    /\ orders = [o \in OrderIds |->
                   [terms |-> NoTerms, available |-> 0, closed |-> FALSE]]
    /\ book = {}
    /\ levels = [side \in Sides |-> {}]
    /\ order_asset \in Assets
    /\ posted = [k \in 1..4 |-> [o \in OrderIds |-> 0]]
    /\ thrown = FALSE
    /\ pc = [t \in Clients |-> "idle"]
    /\ loc = [t \in Clients |-> NoLocals]
    /\ torn = {}
    /\ crashed = FALSE

\* The oldest order of a price level, the only one resolve_orderbook looks at.
Level(side, price) ==
    {o \in book : orders[o].terms.type = side /\ Price(o) = price}
Head(side, price) ==
    IF Level(side, price) = {} THEN NoOrder
    ELSE CHOOSE o \in Level(side, price) : \A p \in Level(side, price) : o <= p
OpenHeads(side) ==
    {o \in book : orders[o].terms.type = side /\ IsOpen(o)
                  /\ o = Head(side, Price(o))}

\* A change of the books tears the scans of the other clients.
ScanLabels == {"ask", "bid first", "bid"}
Scanning == {t \in Clients : pc[t] \in ScanLabels}
Tear(t) == torn' = torn \cup (Scanning \ {t})
\* What is torn no longer matters once the scan is over.
EndTorn(t) == torn' = IF pc'[t] \in ScanLabels THEN torn ELSE torn \ {t}

Goto(t, label) == pc' = [pc EXCEPT ![t] = label]
Return(t) == Goto(t, "idle") /\ loc' = [loc EXCEPT ![t] = NoLocals]
Throw(t) == Return(t) /\ thrown' = TRUE

\* The market's lock, which only a close() keeps over more than one action.
MarketFree(t) == \A u \in Clients \ {t} : pc[u] \notin {"cancel", "removing"}

\* add_order constructs the order, whose available volume is all of it,
\* whichever the side.
Place(t, terms) ==
    LET o == Cardinality(Placed) + 1 IN
    /\ pc[t] = "idle"
    /\ o \in OrderIds
    /\ orders' = [orders EXCEPT ![o] =
         [terms |-> terms, available |-> terms.volume, closed |-> FALSE]]
    /\ loc' = [loc EXCEPT ![t].mine = o]
    /\ Goto(t, "insert")
    /\ UNCHANGED <<book, levels, order_asset, posted, thrown, torn, crashed>>

\* A mutation: the order is entered in the book of the other side.
InsertOtherSide(t) ==
    LET o == loc[t].mine
        side == IF orders[o].terms.type = "ASK" THEN "BID" ELSE "ASK"
    IN
    /\ pc[t] = "insert"
    /\ MarketFree(t)
    /\ book' = book \cup {o}
    /\ levels' = [levels EXCEPT ![side] = @ \cup {Price(o)}]
    /\ Tear(t)
    /\ Goto(t, "begin") /\ loc' = [loc EXCEPT ![t] = NoLocals]
    /\ UNCHANGED <<orders, order_asset, posted, thrown, crashed>>

\* add_order enters it in the book of its side and in _orders.
Insert(t) ==
    LET o == loc[t].mine
        side == orders[o].terms.type
    IN
    /\ pc[t] = "insert"
    /\ MarketFree(t)
    /\ book' = book \cup {o}
    /\ levels' = [levels EXCEPT ![side] = @ \cup {Price(o)}]
    /\ Tear(t)
    /\ Goto(t, "begin") /\ loc' = [loc EXCEPT ![t] = NoLocals]
    /\ UNCHANGED <<orders, order_asset, posted, thrown, crashed>>

\* A mutation: the scan of the asks begins at the highest price.
BeginHighest(t) ==
    /\ pc[t] = "begin"
    /\ MarketFree(t)
    /\ torn' = torn \ {t}
    /\ \/ /\ levels["ASK"] = {}
          /\ Return(t)
       \/ \E price \in levels["ASK"] :
            /\ \A other \in levels["ASK"] : price >= other
            /\ loc' = [loc EXCEPT ![t].at = price]
            /\ Goto(t, "ask")
    /\ UNCHANGED <<orders, book, levels, order_asset, posted, thrown, crashed>>

\* resolve_orderbook: the first ask level, under the lock.
Begin(t) ==
    /\ pc[t] = "begin"
    /\ MarketFree(t)
    /\ torn' = torn \ {t}
    /\ \/ /\ levels["ASK"] = {}
          /\ Return(t)
       \/ \E price \in levels["ASK"] :
            /\ \A other \in levels["ASK"] : price <= other
            /\ loc' = [loc EXCEPT ![t].at = price]
            /\ Goto(t, "ask")
    /\ UNCHANGED <<orders, book, levels, order_asset, posted, thrown, crashed>>

\* The level that follows a price in the direction of a scan, if any.
Following(side, price) ==
    {p \in levels[side] :
       /\ IF side = "ASK" THEN p > price ELSE p < price
       /\ \A q \in levels[side] :
            IF side = "ASK" THEN q > price => p <= q ELSE q < price => p >= q}

\* One turn of a scan loop: the order at the head of a level, when it is
\* open; past it when it is closed; the end when no level follows.  A level
\* that is empty but not the last one is a null order that is dereferenced.
Look(t, side) ==
    LET head == Head(side, loc[t].at)
        following == Following(side, loc[t].at)
    IN IF head # NoOrder /\ IsOpen(head) THEN {<<"found", head>>}
       ELSE IF following = {} THEN {<<"end", NoOrder>>}
       ELSE IF head = NoOrder THEN {<<"crash", NoOrder>>}
       ELSE {<<"next", price>> : price \in following}

\* What a scan may do in a map that changes under it: find any order of the
\* side, end early, or read a node that is gone.
Stumble(side) ==
    {<<"found", o>> : o \in {p \in book : orders[p].terms.type = side /\ IsOpen(p)}}
      \cup {<<"end", NoOrder>>, <<"crash", NoOrder>>}

Scan(t, side) == IF t \in torn THEN Stumble(side) ELSE Look(t, side)

\* A turn that finds no order.
FindsNone(t, turn) ==
    \/ /\ turn[1] = "end"
       /\ Return(t)
       /\ UNCHANGED crashed
    \/ /\ turn[1] = "next"
       /\ loc' = [loc EXCEPT ![t].at = turn[2]]
       /\ UNCHANGED <<pc, crashed>>
    \/ /\ turn[1] = "crash"
       /\ crashed' = TRUE
       /\ UNCHANGED <<pc, loc>>

AskScan(t) ==
    /\ pc[t] = "ask"
    /\ \E turn \in Scan(t, "ASK") :
         \/ /\ turn[1] = "found"
            /\ loc' = [loc EXCEPT ![t].ask = turn[2], ![t].at = Price(turn[2])]
            /\ Goto(t, "bid first")
            /\ UNCHANGED crashed
         \/ FindsNone(t, turn)
    /\ EndTorn(t)
    /\ UNCHANGED <<orders, book, levels, order_asset, posted, thrown>>

\* _bid_orderbook.rbegin(), which is read without the lock.
BidFirst(t) ==
    /\ pc[t] = "bid first"
    /\ \/ /\ levels["BID"] = {}
          /\ Return(t)
       \/ \E price \in levels["BID"] :
            /\ \A other \in levels["BID"] : price >= other
            /\ loc' = [loc EXCEPT ![t].at = price]
            /\ Goto(t, "bid")
    /\ EndTorn(t)
    /\ UNCHANGED <<orders, book, levels, order_asset, posted, thrown, crashed>>

\* Where the engine goes with the bid it has found.
Crosses(t, bid) ==
    /\ loc' = [loc EXCEPT ![t].bid = bid, ![t].at = 0]
    /\ Goto(t, "match")

\* A mutation: equal prices count as a spread.
BidScanSpread(t) ==
    /\ pc[t] = "bid"
    /\ \E turn \in Scan(t, "BID") :
         \/ /\ turn[1] = "found"
            /\ IF Price(loc[t].ask) >= Price(turn[2]) THEN Return(t)
               ELSE Crosses(t, turn[2])
            /\ UNCHANGED crashed
         \/ FindsNone(t, turn)
    /\ EndTorn(t)
    /\ UNCHANGED <<orders, book, levels, order_asset, posted, thrown>>

\* A mutation: a spread starts the resolution over.
BidScanAgain(t) ==
    /\ pc[t] = "bid"
    /\ \E turn \in Scan(t, "BID") :
         \/ /\ turn[1] = "found"
            /\ IF Price(loc[t].ask) > Price(turn[2])
               THEN Goto(t, "begin") /\ loc' = [loc EXCEPT ![t] = NoLocals]
               ELSE Crosses(t, turn[2])
            /\ UNCHANGED crashed
         \/ FindsNone(t, turn)
    /\ EndTorn(t)
    /\ UNCHANGED <<orders, book, levels, order_asset, posted, thrown>>

\* The scan of the bids; nothing to do if there is a spread.
BidScan(t) ==
    /\ pc[t] = "bid"
    /\ \E turn \in Scan(t, "BID") :
         \/ /\ turn[1] = "found"
            /\ IF Price(loc[t].ask) > Price(turn[2]) THEN Return(t)
               ELSE Crosses(t, turn[2])
            /\ UNCHANGED crashed
         \/ FindsNone(t, turn)
    /\ EndTorn(t)
    /\ UNCHANGED <<orders, book, levels, order_asset, posted, thrown>>

Least(i, j) == IF i < j THEN i ELSE j
Most(i, j) == IF i < j THEN j ELSE i

\* What the bid would hold after the match.
NewBid(a, b) ==
    Least(orders[b].available + orders[a].available, orders[b].terms.volume)

\* The available volumes of the two orders are read, and what the bid
\* consumes is worked out.
Match(t) ==
    LET a == loc[t].ask
        b == loc[t].bid
        dv == NewBid(a, b) - orders[b].available
    IN
    /\ pc[t] = "match"
    /\ loc' = [loc EXCEPT ![t].dv = dv,
                          ![t].newBid = NewBid(a, b),
                          ![t].newAsk = Most(orders[a].available - dv, 0)]
    /\ Goto(t, "fill ask")
    /\ UNCHANGED <<orders, book, levels, order_asset, posted, thrown, torn, crashed>>

\* The two orders of the match, what each is left with and what close(true)
\* makes of that.  They are the orders of the scan, whatever became of them.
Mine(t, side) == IF side = "ASK" THEN loc[t].ask ELSE loc[t].bid
Left(t, side) == IF side = "ASK" THEN loc[t].newAsk ELSE loc[t].newBid
Whole(t, side) == IF side = "ASK" THEN 0 ELSE orders[loc[t].bid].terms.volume

FillLabel == [side \in Sides |-> IF side = "ASK" THEN "fill ask" ELSE "fill bid"]
CloseLabel == [side \in Sides |-> IF side = "ASK" THEN "close ask" ELSE "close bid"]
ShutLabel == [side \in Sides |-> IF side = "ASK" THEN "shut ask" ELSE "shut bid"]

\* available_volume(left) of the ask, then of the bid.
Fill(t, side) ==
    /\ pc[t] = FillLabel[side]
    /\ orders' = [orders EXCEPT ![Mine(t, side)].available = Left(t, side)]
    /\ Goto(t, IF side = "ASK" THEN "fill bid" ELSE "close ask")
    /\ UNCHANGED <<book, levels, order_asset, posted, thrown, loc, torn, crashed>>

ClosedNext(side) == IF side = "ASK" THEN "close bid" ELSE "settle 1"

\* A mutation: close() does not look whether the order is closed.
CloseAgain(t, side) ==
    /\ pc[t] = CloseLabel[side]
    /\ Goto(t, IF Left(t, side) = Whole(t, side) THEN ShutLabel[side]
               ELSE ClosedNext(side))
    /\ UNCHANGED <<orders, book, levels, order_asset, posted, thrown, loc, torn, crashed>>

\* close(true) of the ask, then of the bid, when there is nothing left to do
\* for it; an order that is closed already is left alone.
Close(t, side) ==
    /\ pc[t] = CloseLabel[side]
    /\ Goto(t, IF Left(t, side) = Whole(t, side) /\ IsOpen(Mine(t, side))
               THEN ShutLabel[side] ELSE ClosedNext(side))
    /\ UNCHANGED <<orders, book, levels, order_asset, posted, thrown, loc, torn, crashed>>

\* The order was open when close() looked: it is marked as filled and takes its
\* close time, also when it is no longer open.
Shut(t, side) ==
    /\ pc[t] = ShutLabel[side]
    /\ orders' = [orders EXCEPT ![Mine(t, side)].available = Whole(t, side),
                                ![Mine(t, side)].closed = TRUE]
    /\ Goto(t, ClosedNext(side))
    /\ UNCHANGED <<book, levels, order_asset, posted, thrown, loc, torn, crashed>>

Fee(amount) == amount \div 1000

\* The four transactions of a trade: the fees of both sides to the market,
\* then the payment to the seller and the goods to the buyer.
Leg(t, k) ==
    LET a == loc[t].ask
        b == loc[t].bid
        dv == loc[t].dv
        cost == dv * Price(Least(a, b))
    IN
    CASE k = 1 -> [to |-> MarketAccount, from |-> Account(b), amount |-> Fee(cost)]
      [] k = 2 -> [to |-> MarketAccount, from |-> Account(a), amount |-> Fee(dv)]
      [] k = 3 -> [to |-> Account(a), from |-> Account(b), amount |-> cost - Fee(cost)]
      [] k = 4 -> [to |-> Account(b), from |-> Account(a), amount |-> dv - Fee(dv)]

\* What exec_transaction refuses whatever the balances are.
Impossible(tx) ==
    \/ tx.to = tx.from
    \/ ~{tx.to, tx.from} \subseteq Opened \cup {MarketAccount}

SettleLabel == <<"settle 1", "settle 2", "settle 3", "settle 4">>

\* A mutation: the trade is over once it is paid.
SettlePayment(t, k) ==
    /\ pc[t] = SettleLabel[k]
    /\ ~Impossible(Leg(t, k))
    /\ posted' = [posted EXCEPT ![k][loc[t].bid] = @ + 1]
    /\ IF k < 3
       THEN Goto(t, SettleLabel[k + 1]) /\ UNCHANGED loc
       ELSE Goto(t, "begin") /\ loc' = [loc EXCEPT ![t] = NoLocals]
    /\ UNCHANGED <<orders, book, levels, order_asset, thrown, torn, crashed>>

\* The k-th transaction is posted.  After the fourth the trade is signalled
\* and resolve_orderbook starts over.
Settle(t, k) ==
    /\ pc[t] = SettleLabel[k]
    /\ ~Impossible(Leg(t, k))
    /\ posted' = [posted EXCEPT ![k][loc[t].bid] = @ + 1]
    /\ IF k < 4
       THEN Goto(t, SettleLabel[k + 1]) /\ UNCHANGED loc
       ELSE Goto(t, "begin") /\ loc' = [loc EXCEPT ![t] = NoLocals]
    /\ UNCHANGED <<orders, book, levels, order_asset, thrown, torn, crashed>>

\* exec_transaction throws, for lack of funds too if money has to move, and
\* the exception leaves add_order.
SettleFails(t, k) ==
    /\ pc[t] = SettleLabel[k]
    /\ Impossible(Leg(t, k)) \/ Leg(t, k).amount > 0
    /\ Throw(t)
    /\ UNCHANGED <<orders, book, levels, order_asset, posted, torn, crashed>>

\* cancel_order; an unknown order is an exception that changes nothing, and
\* so does close() when the order is closed.
Cancel(t, o) ==
    /\ pc[t] = "idle"
    /\ MarketFree(t)
    /\ o \in book /\ IsOpen(o)
    /\ loc' = [loc EXCEPT ![t].mine = o]
    /\ Goto(t, "cancel")
    /\ UNCHANGED <<orders, book, levels, order_asset, posted, thrown, torn, crashed>>

CancelCloses(t) ==
    /\ pc[t] = "cancel"
    /\ orders' = [orders EXCEPT ![loc[t].mine].closed = TRUE]
    /\ Return(t)
    /\ UNCHANGED <<book, levels, order_asset, posted, thrown, torn, crashed>>

\* remove_cancelled_orders, or reset_orderbook as the asset setters call it:
\* the ids to remove are collected under the lock.
CollectIds(t, reset) ==
    /\ pc[t] = "idle"
    /\ MarketFree(t)
    /\ loc' = [loc EXCEPT ![t].reset = reset,
                          ![t].ids = IF reset THEN book
                                     ELSE {o \in book : ~IsOpen(o)}]
    /\ Goto(t, "remove")
    /\ UNCHANGED <<orders, book, levels, order_asset, posted, thrown, torn, crashed>>

\* The ids are removed one by one; one that has gone is nothing to do.
IsNext(t, o) == o \in loc[t].ids /\ \A p \in loc[t].ids : o <= p
Erase(t, o) ==
    /\ book' = book \ {o}
    /\ IF o \in book THEN Tear(t) ELSE UNCHANGED torn
    /\ loc' = [loc EXCEPT ![t].ids = @ \ {o}]

\* remove_order closes the order if it is open, moves it to _removed_orders
\* and erases it from its level and from _orders.
Remove(t, o) ==
    /\ pc[t] = "remove"
    /\ MarketFree(t)
    /\ IsNext(t, o)
    /\ IF o \in book /\ IsOpen(o)
       THEN Goto(t, "removing") /\ UNCHANGED <<book, loc, torn>>
       ELSE Erase(t, o) /\ UNCHANGED pc
    /\ UNCHANGED <<orders, levels, order_asset, posted, thrown, crashed>>

RemoveCloses(t, o) ==
    /\ pc[t] = "removing"
    /\ IsNext(t, o)
    /\ orders' = [orders EXCEPT ![o].closed = TRUE]
    /\ Erase(t, o)
    /\ Goto(t, "remove")
    /\ UNCHANGED <<levels, order_asset, posted, thrown, crashed>>

\* All are removed; reset_orderbook clears _removed_orders.
RemoveEnd(t) ==
    /\ pc[t] = "remove"
    /\ loc[t].ids = {}
    /\ loc[t].reset => MarketFree(t)
    /\ IF loc[t].reset
       THEN Goto(t, "set asset") /\ UNCHANGED loc
       ELSE Return(t)
    /\ UNCHANGED <<orders, book, levels, order_asset, posted, thrown, torn, crashed>>

\* order_asset_id(oaid), payment_asset_id(paid): the asset is set in a region
\* of its own.
SetAsset(t, asset) ==
    /\ pc[t] = "set asset"
    /\ MarketFree(t)
    /\ order_asset' = asset
    /\ Return(t)
    /\ UNCHANGED <<orders, book, levels, posted, thrown, torn, crashed>>

\* What a client does once it is inside add_order.
AddStep(t) ==
    \/ Insert(t)
    \/ Begin(t)
    \/ AskScan(t)
    \/ BidFirst(t)
    \/ BidScan(t)
    \/ Match(t)
    \/ \E side \in Sides : Fill(t, side) \/ Close(t, side) \/ Shut(t, side)
    \/ \E k \in 1..4 : Settle(t, k) \/ SettleFails(t, k)

Next ==
    /\ ~crashed
    /\ \E t \in Clients :
         \/ \E terms \in OrdersOf[t] : Place(t, terms)
         \/ AddStep(t)
         \/ "cancel" \in CallsOf[t] /\ \E o \in OrderIds : Cancel(t, o)
         \/ "remove" \in CallsOf[t] /\ CollectIds(t, FALSE)
         \/ "set asset" \in CallsOf[t] /\ CollectIds(t, TRUE)
         \/ CancelCloses(t)
         \/ \E o \in OrderIds : Remove(t, o) \/ RemoveCloses(t, o)
         \/ RemoveEnd(t)
         \/ \E asset \in Assets : SetAsset(t, asset)

Spec == Init /\ [][Next]_vars

\* The scheduler runs every thread that can run, also one that holds the lock.
FairSpec ==
    /\ Spec
    /\ \A t \in Clients :
         /\ WF_vars(~crashed /\ AddStep(t))
         /\ WF_vars(~crashed /\ (CancelCloses(t) \/ \E o \in OrderIds : RemoveCloses(t, o)))

-----------------------------------------------------------------------------
AtRest == ~crashed /\ \A t \in Clients : pc[t] = "idle"
NothingRemoved == \A o \in Placed : o \in book

\* No call is running, so every match the engine could see has been made: the
\* orders at the heads of the levels do not cross, however the calls that
\* placed them overlapped.  A call that failed leaves its matches unmade, and a
\* removal, which does not resolve the book, may uncover one.  Of the orders
\* behind a head this says nothing: see OpenOrdersDoNotCross.
HeadsDoNotCross ==
    AtRest /\ NothingRemoved /\ ~thrown =>
      \A a \in OpenHeads("ASK"), b \in OpenHeads("BID") : Price(a) > Price(b)

\* The same of all open orders ("resolve orderbook - after every change to
\* orderbook, check if any buys match sells"; "find first non closed ask
\* order"): an order behind one of its level that is closed counts too.
OpenOrdersDoNotCross ==
    AtRest /\ NothingRemoved /\ ~thrown =>
      \A a, b \in {o \in book : IsOpen(o)} :
        orders[a].terms.type = "ASK" /\ orders[b].terms.type = "BID" => Price(a) > Price(b)

\* A bid that trades between accounts that exist and differ is settled whole:
\* at rest each of its trades has posted its fees, its payment and its goods.
TradesSettleWhole ==
    AtRest => \A b \in Placed :
      \/ \A k \in 1..4 : posted[k][b] = posted[1][b]
      \/ Account(b) \notin Opened
      \/ \E a \in Placed \ {b} :
           Account(a) = Account(b) \/ Account(a) \notin Opened

\* A match is made between the best prices: unless the book changed while it
\* was being scanned, no open order heads a better level when the match is
\* decided.
BestHeadsMatched ==
    [][\A t \in Clients \ torn :
         pc[t] = "bid" /\ pc'[t] = "match" =>
           /\ \A a \in OpenHeads("ASK") : Price(loc'[t].ask) <= Price(a)
           /\ \A b \in OpenHeads("BID") : Price(loc'[t].bid) >= Price(b)]_vars

Status(o) ==
    IF o \in book THEN IF IsOpen(o) THEN "open" ELSE "closed"
    ELSE IF o \notin Placed \/ \E t \in Clients : pc[t] = "insert" /\ loc[t].mine = o
         THEN "none"
         ELSE IF ~IsOpen(o) THEN "removed" ELSE "lost"

\* The order a client has found open and is about to close.
Looking(t) ==
    CASE pc[t] = "shut ask" -> loc[t].ask
      [] pc[t] = "shut bid" -> loc[t].bid
      [] pc[t] = "cancel" -> loc[t].mine
      [] pc[t] = "removing" -> CHOOSE o \in loc[t].ids : IsNext(t, o)
      [] OTHER -> NoOrder

Life == INSTANCE OrderLife WITH
          status  <- [o \in OrderIds |-> Status(o)],
          looking <- [t \in Clients |-> Looking(t)],
          terms   <- [o \in OrderIds |->
                        IF Status(o) = "none" THEN NoTerms ELSE orders[o].terms]

\* However scans, fills, cancellations and removals overlap, an order lives
\* once: it is opened on fixed terms, closed only by calls that have found it
\* open, never opens again, is not lost and is removed once.
ImplementsOrderLife == Life!Spec

\* Every call of add_order returns, or the process is gone: each turn of
\* resolve_orderbook leaves one order fewer to match.
AddReturns == \A t \in Clients : pc[t] = "insert" ~> pc[t] = "idle" \/ crashed

\* A trade that is signalled has moved something ("execute the transaction
\* changing the respective balances of the market participants involved").
TradesMoveVolume ==
    [][\A t \in Clients : pc[t] = "settle 4" /\ pc'[t] = "begin" => loc[t].dv > 0]_vars
=============================================================================
