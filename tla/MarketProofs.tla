---------------------------- MODULE MarketProofs ----------------------------
(***************************************************************************)
(* Proofs about Market: for any clients, accounts, prices, volumes and     *)
(* any number of orders.                                                   *)
(***************************************************************************)
EXTENDS Market, FiniteSetTheorems, TLAPS

\* A set of numbers that is not empty has a least one.
LEMMA LeastExists ==
    ASSUME NEW S \in SUBSET Nat, S # {}
    PROVE  \E x \in S : \A y \in S : x <= y
<1> DEFINE T == {0..x : x \in S}
<1>1. IsWellFoundedOn(StrictSubsetOrdering(Nat), FiniteSubsetsOf(Nat))
  BY FS_StrictSubsetOrderingWellFounded
<1>2. \A x \in S : IsFiniteSet(0..x) /\ 0..x \subseteq Nat
  BY FS_Interval
<1>3. T \subseteq FiniteSubsetsOf(Nat) /\ T # {}
  BY <1>2 DEF FiniteSubsetsOf
<1>4. PICK t \in T : \A u \in T : ~(<<u, t>> \in StrictSubsetOrdering(Nat))
  BY <1>1, <1>3, WFMin
<1>5. PICK x \in S : t = 0..x
  OBVIOUS
<1>6. ASSUME NEW y \in S, y < x
      PROVE  FALSE
  <2>1. 0..y \in T /\ 0..y \subseteq 0..x /\ 0..y # 0..x
    BY <1>6
  <2>2. <<0..y, t>> \in StrictSubsetOrdering(Nat)
    BY <1>2, <1>5, <2>1 DEF StrictSubsetOrdering
  <2> QED
    BY <1>4, <2>1, <2>2
<1> QED
  BY <1>6

-----------------------------------------------------------------------------
(* Types.                                                                  *)

\* The locals of a client.
Locals == [mine: OrderIds \cup {NoOrder}, ask: OrderIds \cup {NoOrder},
           bid: OrderIds \cup {NoOrder}, at: Prices \cup {0}, dv: Int,
           newAsk: Nat, newBid: Nat, ids: SUBSET OrderIds, reset: BOOLEAN]

LEMMA IdsAreNumbers ==
    OrderIds \subseteq Nat /\ NoOrder \notin OrderIds
  BY MaxOrdersAssumption DEF OrderIds, NoOrder

LEMMA NoTermsAreNone == NoTerms \notin Terms
  BY DEF NoTerms, Terms, Sides

LEMMA LabelFacts ==
    /\ SettleLabel[1] = "settle 1" /\ SettleLabel[2] = "settle 2"
    /\ SettleLabel[3] = "settle 3" /\ SettleLabel[4] = "settle 4"
    /\ \A k \in 1..4 : SettleLabel[k] \in Matched
  BY DEF SettleLabel, Matched, Settling

\* The labels of the steps, and what they are not.
LEMMA SideLabels ==
    /\ FillLabel["ASK"] = "fill ask" /\ FillLabel["BID"] = "fill bid"
    /\ CloseLabel["ASK"] = "close ask" /\ CloseLabel["BID"] = "close bid"
    /\ ShutLabel["ASK"] = "shut ask" /\ ShutLabel["BID"] = "shut bid"
    /\ \A side \in Sides : {FillLabel[side], CloseLabel[side], ShutLabel[side],
                           ClosedNext(side)} \subseteq Matched \ {"match"}
  BY DEF FillLabel, CloseLabel, ShutLabel, ClosedNext, Sides, Matched, Filling, Settling

LEMMA LabelSets ==
    /\ Matched \subseteq Labels
    /\ {"idle", "insert", "begin", "ask", "bid first", "bid", "cancel", "remove",
         "removing", "set asset"} \subseteq Labels \ Matched
  BY DEF Labels, Matched, Filling, Settling

\* An order that is placed has terms, and so have those in the book.
LEMMA PlacedTerms ==
    ASSUME TypeOK
    PROVE  /\ \A o \in Placed : orders[o] \in [terms: Terms, available: Nat, closed: BOOLEAN]
           /\ book \subseteq Placed
           /\ \A o \in OrderIds : orders[o].terms \in Terms => o \in Placed
<1> DEFINE None == [terms |-> NoTerms, available |-> 0, closed |-> FALSE]
           Order == [terms: Terms, available: Nat, closed: BOOLEAN]
<1>1. \A o \in OrderIds : orders[o] = None \/ orders[o] \in Order
  BY DEF TypeOK
<1>2. None.terms = NoTerms
  OBVIOUS
<1>3. book \subseteq OrderIds /\ \A o \in book : orders[o].terms \in Terms
  BY DEF TypeOK
<1> HIDE DEF None, Order
<1>4. \A o \in Placed : orders[o] \in Order
  BY <1>1, <1>2 DEF Placed
<1>5. \A o \in OrderIds : orders[o].terms \in Terms => o \in Placed
  BY NoTermsAreNone DEF Placed
<1> QED
  BY <1>3, <1>4, <1>5 DEF Order

\* The head of a level is an order of it, unless the level is empty.
LEMMA HeadOfLevel ==
    ASSUME TypeOK, NEW side, NEW price, Head(side, price) # NoOrder
    PROVE  /\ Head(side, price) \in Level(side, price)
           /\ \A o \in Level(side, price) : Head(side, price) <= o
<1>1. book \subseteq Nat
  BY IdsAreNumbers DEF TypeOK
<1>2. Level(side, price) # {} /\ Level(side, price) \subseteq Nat
  BY <1>1 DEF Head, Level
<1>3. \E o \in Level(side, price) : \A p \in Level(side, price) : o <= p
  BY <1>2, LeastExists
<1> QED
  BY <1>2, <1>3 DEF Head

\* The orders that are found in a book are orders of its side.
LEMMA FoundOfSide ==
    ASSUME TypeOK, NEW t \in Clients, NEW side \in Sides,
           NEW turn \in Scan(t, side), turn[1] = "found"
    PROVE  /\ turn[2] \in book /\ OfSide(turn[2], side)
           /\ IsOpen(turn[2]) /\ Price(turn[2]) \in Prices
<1>1. turn[2] \in book /\ orders[turn[2]].terms.type = side /\ IsOpen(turn[2])
  <2>1. CASE t \in torn
    BY <2>1 DEF Scan, Stumble
  <2>2. CASE t \notin torn
    <3> DEFINE head == Head(side, loc[t].at)
    <3>1. turn[2] = head /\ head # NoOrder /\ IsOpen(head)
      BY <2>2 DEF Scan, Look
    <3>2. head \in Level(side, loc[t].at)
      BY <3>1, HeadOfLevel
    <3> QED
      BY <3>1, <3>2 DEF Level
  <2> QED
    BY <2>1, <2>2
<1>2. turn[2] \in OrderIds /\ orders[turn[2]].terms \in Terms
  BY <1>1 DEF TypeOK
<1> QED
  BY <1>1, <1>2 DEF OfSide, Price, Terms

LEMMA NextInPrices ==
    ASSUME TypeOK, NEW t \in Clients, NEW side \in Sides,
           NEW turn \in Scan(t, side), turn[1] = "next"
    PROVE  turn[2] \in levels[side] /\ turn[2] \in Prices
<1>1. levels[side] \subseteq Prices
  BY DEF TypeOK
<1>2. t \notin torn
  BY DEF Scan, Stumble
<1>3. turn[2] \in Following(side, loc[t].at)
  BY <1>2 DEF Scan, Look
<1> QED
  BY <1>1, <1>3 DEF Following

\* The ids are given out upwards.
InOrder == \E n \in 0..MaxOrders : Placed = 1..n

LEMMA NextId ==
    ASSUME InOrder
    PROVE  /\ Cardinality(Placed) + 1 \notin Placed
           /\ \E n \in Nat : Placed = 1..n /\ Cardinality(Placed) = n
<1>1. PICK n \in 0..MaxOrders : Placed = 1..n
  BY DEF InOrder
<1>2. n \in Nat /\ 1 \in Int
  BY MaxOrdersAssumption
<1>3. Cardinality(1..n) = IF 1 > n THEN 0 ELSE n - 1 + 1
  BY <1>2, FS_Interval
<1>4. Cardinality(Placed) = n
  BY <1>1, <1>2, <1>3
<1> QED
  BY <1>1, <1>2, <1>4

LEMMA TypeInit == Init => TypeOK /\ InOrder
<1> SUFFICES ASSUME Init
             PROVE  TypeOK /\ InOrder
  OBVIOUS
<1>1. 0 \in 0..MaxOrders
  BY MaxOrdersAssumption
<1>2. Placed = 1..0
  BY DEF Init, Placed
<1>3. /\ orders \in [OrderIds ->
            {[terms |-> NoTerms, available |-> 0, closed |-> FALSE]}
              \cup [terms: Terms, available: Nat, closed: BOOLEAN]]
      /\ loc \in [Clients -> Locals]
  BY DEF Init, NoLocals, NoOrder, Locals
<1>4. pc \in [Clients -> Labels]
  BY LabelSets DEF Init
<1>5. TypeOK
  BY <1>3, <1>4 DEF Init, TypeOK, Sides, Matched, Filling, Settling, Locals
<1> QED
  BY <1>1, <1>2, <1>5 DEF InOrder

\* The steps that only move a client: what it is about to use is there.
LEMMA MoveTyped ==
    ASSUME TypeOK, NEW t \in Clients,
           UNCHANGED <<orders, book, levels, order_asset>>,
           (posted \in [1..4 -> [OrderIds -> Nat]])',
           thrown' \in BOOLEAN, crashed' \in BOOLEAN, torn' \subseteq Clients,
           NEW label \in Labels \ {"insert"},
           NEW locals \in Locals,
           pc' = [pc EXCEPT ![t] = label], loc' = [loc EXCEPT ![t] = locals],
           label \in {"bid first", "bid"} \cup Matched => OfSide(locals.ask, "ASK"),
           label \in Matched => OfSide(locals.bid, "BID")
    PROVE  TypeOK'
<1>1. (/\ orders \in [OrderIds ->
             {[terms |-> NoTerms, available |-> 0, closed |-> FALSE]}
               \cup [terms: Terms, available: Nat, closed: BOOLEAN]]
       /\ book \subseteq OrderIds
       /\ levels \in [Sides -> SUBSET Prices]
       /\ order_asset \in Assets
       /\ \A o \in book :
            orders[o].terms \in Terms /\ Price(o) \in levels[orders[o].terms.type])'
  BY DEF TypeOK, Price
<1>2. (/\ pc \in [Clients -> Labels]
       /\ loc \in [Clients -> Locals])'
  BY DEF TypeOK, Locals
<1>3. ASSUME NEW u \in Clients
      PROVE  (/\ pc[u] = "insert" => Pending(u)
              /\ pc[u] \in {"bid first", "bid"} \cup Matched => OfSide(loc[u].ask, "ASK")
              /\ pc[u] \in Matched => OfSide(loc[u].bid, "BID"))'
  <2>1. CASE u = t
    <3>1. pc'[u] = label /\ loc'[u] = locals
      BY <2>1 DEF TypeOK
    <3> QED
      BY <3>1 DEF OfSide
  <2>2. CASE u # t
    <3>1. pc'[u] = pc[u] /\ loc'[u] = loc[u]
      BY <2>2 DEF TypeOK
    <3>2. /\ pc[u] = "insert" => Pending(u)
          /\ pc[u] \in {"bid first", "bid"} \cup Matched => OfSide(loc[u].ask, "ASK")
          /\ pc[u] \in Matched => OfSide(loc[u].bid, "BID")
      BY DEF TypeOK
    <3> QED
      BY <3>1, <3>2 DEF OfSide, Pending
  <2> QED
    BY <2>1, <2>2
<1> QED
  BY <1>1, <1>2, <1>3 DEF TypeOK, Locals

LEMMA NoLocalsTyped == NoLocals \in Locals
  BY DEF NoLocals, Locals, NoOrder

\* A client that returns, or leaves with an exception.
LEMMA ReturnTyped ==
    ASSUME TypeOK, NEW t \in Clients, Return(t),
           UNCHANGED <<orders, book, levels, order_asset, posted, crashed>>,
           thrown' \in BOOLEAN, torn' \subseteq Clients
    PROVE  TypeOK'
<1>1. /\ pc' = [pc EXCEPT ![t] = "idle"] /\ loc' = [loc EXCEPT ![t] = NoLocals]
      /\ (posted \in [1..4 -> [OrderIds -> Nat]])' /\ crashed' \in BOOLEAN
  BY DEF Return, Goto, TypeOK
<1>2. "idle" \notin {"bid first", "bid"} \cup Matched /\ "idle" \in Labels \ {"insert"}
  BY LabelSets
<1> QED
  BY <1>1, <1>2, NoLocalsTyped, MoveTyped

\* The turns of a scan that find nothing.
LEMMA FindsNoneTyped ==
    ASSUME TypeOK, NEW t \in Clients, NEW side \in Sides, NEW turn \in Scan(t, side),
           FindsNone(t, turn), pc[t] \in {"ask", "bid"},
           torn' \subseteq Clients,
           UNCHANGED <<orders, book, levels, order_asset, posted, thrown>>
    PROVE  TypeOK'
<1>1. CASE turn[1] = "end"
  <2>1. Return(t) /\ crashed' = crashed
    BY <1>1 DEF FindsNone
  <2>2. thrown' \in BOOLEAN /\ torn' \subseteq Clients
    BY DEF TypeOK
  <2> QED
    BY <2>1, <2>2, ReturnTyped
<1>2. CASE turn[1] = "next"
  <2>1. /\ loc' = [loc EXCEPT ![t] = [loc[t] EXCEPT !.at = turn[2]]]
        /\ pc' = [pc EXCEPT ![t] = pc[t]] /\ crashed' = crashed
    BY <1>2 DEF FindsNone, TypeOK
  <2>2. [loc[t] EXCEPT !.at = turn[2]] \in Locals
    <3>1. turn[2] \in Prices /\ loc[t] \in Locals
      BY <1>2, NextInPrices DEF TypeOK, Locals
    <3> QED
      BY <3>1 DEF Locals
  <2>3. pc[t] = "bid" => OfSide(loc[t].ask, "ASK")
    BY DEF TypeOK
  <2>4. /\ [loc[t] EXCEPT !.at = turn[2]].ask = loc[t].ask
        /\ pc[t] \in Labels \ {"insert"} /\ pc[t] \notin Matched
    BY LabelSets DEF TypeOK
  <2>5. /\ (posted \in [1..4 -> [OrderIds -> Nat]])'
        /\ thrown' \in BOOLEAN /\ crashed' \in BOOLEAN /\ torn' \subseteq Clients
    BY <2>1 DEF TypeOK
  <2> QED
    BY <2>1, <2>2, <2>3, <2>4, <2>5, MoveTyped, ZenonT(30)
<1>3. CASE turn[1] = "crash"
  <2>1. crashed' = TRUE /\ UNCHANGED <<pc, loc>>
    BY <1>3 DEF FindsNone
  <2> QED
    BY <2>1 DEF TypeOK, Pending, OfSide, Price
<1> QED
  BY <1>1, <1>2, <1>3 DEF FindsNone

\* What ends the tears of a scan.
LEMMA EndTornFacts ==
    ASSUME NEW t \in Clients, EndTorn(t)
    PROVE  /\ torn' \subseteq torn /\ torn \ {t} \subseteq torn'
           /\ pc'[t] \in ScanLabels => torn' = torn
  BY DEF EndTorn

\* The two things remove_order does: it finds the order open, or it erases it.
Finds(t, o) == Remove(t, o) /\ o \in book /\ IsOpen(o)
Erases(t, o) == Remove(t, o) /\ ~(o \in book /\ IsOpen(o))

\* The steps that leave the orders and the books alone.
QuietStep(t) ==
    \/ Begin(t) \/ AskScan(t) \/ BidFirst(t) \/ BidScan(t) \/ Match(t)
    \/ \E side \in Sides : Close(t, side)
    \/ \E k \in 1..4 : Settle(t, k) \/ SettleFails(t, k)
    \/ \E o \in OrderIds : Cancel(t, o) \/ Finds(t, o)
    \/ \E reset \in BOOLEAN : CollectIds(t, reset)
    \/ RemoveEnd(t)
    \/ \E asset \in Assets : SetAsset(t, asset)

LEMMA QuietTyped ==
    ASSUME TypeOK, NEW t \in Clients, QuietStep(t)
    PROVE  TypeOK'
<1>1. /\ loc[t] \in Locals
      /\ posted \in [1..4 -> [OrderIds -> Nat]] /\ thrown \in BOOLEAN
      /\ crashed \in BOOLEAN /\ torn \subseteq Clients
      /\ levels \in [Sides -> SUBSET Prices]
      /\ pc[t] \in {"bid first", "bid"} \cup Matched => OfSide(loc[t].ask, "ASK")
      /\ pc[t] \in Matched => OfSide(loc[t].bid, "BID")
  BY DEF TypeOK, Locals
<1>2. CASE Begin(t)
  <2>1. CASE Return(t)
    BY <1>1, <1>2, <2>1, ReturnTyped DEF Begin
  <2>2. CASE \E price \in levels["ASK"] :
               loc' = [loc EXCEPT ![t].at = price] /\ Goto(t, "ask")
    <3>1. PICK price \in Prices :
            loc' = [loc EXCEPT ![t].at = price] /\ Goto(t, "ask")
      BY <1>1, <2>2 DEF Sides
    <3>2. /\ [loc[t] EXCEPT !.at = price] \in Locals
          /\ loc' = [loc EXCEPT ![t] = [loc[t] EXCEPT !.at = price]]
          /\ pc' = [pc EXCEPT ![t] = "ask"]
      BY <1>1, <3>1 DEF Locals, Goto
    <3>3. "ask" \notin {"bid first", "bid"} \cup Matched /\ "ask" \in Labels \ {"insert"}
      BY LabelSets
    <3>4. /\ UNCHANGED <<orders, book, levels, order_asset, posted, thrown, crashed>>
          /\ torn' \subseteq Clients
      BY <1>1, <1>2 DEF Begin
    <3> QED
      BY <1>1, <3>2, <3>3, <3>4, MoveTyped
  <2> QED
    BY <1>2, <2>1, <2>2 DEF Begin
<1>3. CASE AskScan(t)
  <2>1. PICK turn \in Scan(t, "ASK") :
          \/ /\ turn[1] = "found"
             /\ loc' = [loc EXCEPT ![t].ask = turn[2], ![t].at = Price(turn[2])]
             /\ Goto(t, "bid first")
             /\ UNCHANGED crashed
          \/ FindsNone(t, turn)
    BY <1>3 DEF AskScan
  <2>2. /\ UNCHANGED <<orders, book, levels, order_asset, posted, thrown>>
        /\ pc[t] = "ask" /\ "ASK" \in Sides /\ torn' \subseteq Clients
    BY <1>1, <1>3, EndTornFacts DEF AskScan, Sides
  <2>3. CASE FindsNone(t, turn)
    BY <2>2, <2>3, FindsNoneTyped
  <2>4. CASE ~FindsNone(t, turn)
    <3> DEFINE locals == [loc[t] EXCEPT !.ask = turn[2], !.at = Price(turn[2])]
    <3>1. OfSide(turn[2], "ASK") /\ Price(turn[2]) \in Prices
      BY <2>1, <2>2, <2>4, FoundOfSide
    <3>2. loc' = [loc EXCEPT ![t] = locals] /\ pc' = [pc EXCEPT ![t] = "bid first"]
          /\ crashed' = crashed
      BY <2>1, <2>4 DEF Goto
    <3>3. /\ locals \in Locals /\ locals.ask = turn[2]
          /\ "bid first" \notin Matched /\ "bid first" \in Labels \ {"insert"}
      BY <1>1, <3>1, LabelSets DEF Locals, OfSide
    <3> HIDE DEF locals
    <3> QED
      BY <1>1, <2>2, <3>1, <3>2, <3>3, MoveTyped
  <2> QED
    BY <2>3, <2>4
<1>4. CASE BidFirst(t)
  <2>1. CASE Return(t)
    BY <1>1, <1>4, <2>1, EndTornFacts, ReturnTyped DEF BidFirst
  <2>2. CASE \E price \in levels["BID"] :
               loc' = [loc EXCEPT ![t].at = price] /\ Goto(t, "bid")
    <3>1. PICK price \in Prices :
            loc' = [loc EXCEPT ![t].at = price] /\ Goto(t, "bid")
      BY <1>1, <2>2 DEF Sides
    <3>2. /\ [loc[t] EXCEPT !.at = price] \in Locals
          /\ [loc[t] EXCEPT !.at = price].ask = loc[t].ask
          /\ loc' = [loc EXCEPT ![t] = [loc[t] EXCEPT !.at = price]]
          /\ pc' = [pc EXCEPT ![t] = "bid"]
      BY <1>1, <3>1 DEF Locals, Goto
    <3>3. /\ "bid" \notin Matched /\ "bid" \in Labels \ {"insert"}
          /\ OfSide(loc[t].ask, "ASK")
      BY <1>1, <1>4, LabelSets DEF BidFirst
    <3>4. /\ UNCHANGED <<orders, book, levels, order_asset, posted, thrown, crashed>>
          /\ torn' \subseteq Clients
      BY <1>1, <1>4, EndTornFacts DEF BidFirst
    <3> QED
      BY <1>1, <3>2, <3>3, <3>4, MoveTyped
  <2> QED
    BY <1>4, <2>1, <2>2 DEF BidFirst
<1>5. CASE BidScan(t)
  <2>1. PICK turn \in Scan(t, "BID") :
          \/ /\ turn[1] = "found"
             /\ IF Price(loc[t].ask) > Price(turn[2]) THEN Return(t)
                ELSE Crosses(t, turn[2])
             /\ UNCHANGED crashed
          \/ FindsNone(t, turn)
    BY <1>5 DEF BidScan
  <2>2. /\ UNCHANGED <<orders, book, levels, order_asset, posted, thrown>>
        /\ pc[t] = "bid" /\ "BID" \in Sides /\ torn' \subseteq Clients
    BY <1>1, <1>5, EndTornFacts DEF BidScan, Sides
  <2>3. CASE FindsNone(t, turn)
    BY <2>2, <2>3, FindsNoneTyped
  <2>4. CASE Return(t) /\ UNCHANGED crashed
    BY <1>1, <2>2, <2>4, ReturnTyped
  <2>5. CASE turn[1] = "found" /\ Crosses(t, turn[2]) /\ UNCHANGED crashed
    <3> DEFINE locals == [loc[t] EXCEPT !.bid = turn[2], !.at = 0]
    <3>1. OfSide(turn[2], "BID")
      BY <2>2, <2>5, FoundOfSide
    <3>2. loc' = [loc EXCEPT ![t] = locals] /\ pc' = [pc EXCEPT ![t] = "match"]
      BY <2>5 DEF Crosses, Goto
    <3>3. locals \in Locals /\ locals.bid = turn[2] /\ locals.ask = loc[t].ask
      BY <1>1, <3>1 DEF Locals, OfSide
    <3>4. OfSide(loc[t].ask, "ASK") /\ "match" \in Labels \ {"insert"}
      BY <1>1, <2>2, LabelSets DEF Matched
    <3> HIDE DEF locals
    <3> QED
      BY <1>1, <2>2, <2>5, <3>1, <3>2, <3>3, <3>4, MoveTyped
  <2> QED
    BY <2>1, <2>3, <2>4, <2>5
<1>6. CASE Match(t)
  <2> DEFINE a == loc[t].ask
             b == loc[t].bid
             dv == NewBid(a, b) - orders[b].available
             locals == [loc[t] EXCEPT !.dv = dv, !.newBid = NewBid(a, b),
                                      !.newAsk = Most(orders[a].available - dv, 0)]
  <2>1. /\ pc[t] = "match" /\ "match" \in Matched /\ "fill ask" \in Matched
        /\ "fill ask" \in Labels \ {"insert"}
    BY <1>6, LabelSets DEF Match, Matched, Filling
  <2>2. OfSide(a, "ASK") /\ OfSide(b, "BID")
    BY <1>1, <2>1
  <2>3. a \in Placed /\ b \in Placed
    BY <2>2, PlacedTerms DEF OfSide
  <2>4. /\ orders[a].available \in Nat /\ orders[b].available \in Nat
        /\ orders[b].terms.volume \in Nat
    BY <2>3, PlacedTerms, VolumesAssumption DEF Terms
  <2>5. NewBid(a, b) \in Nat
    BY <2>4 DEF NewBid, Least
  <2>6. dv \in Int /\ Most(orders[a].available - dv, 0) \in Nat
    BY <2>4, <2>5 DEF Most
  <2>7. locals \in Locals /\ locals.ask = a /\ locals.bid = b
    BY <1>1, <2>5, <2>6 DEF Locals
  <2>8. /\ loc' = [loc EXCEPT ![t] = locals] /\ pc' = [pc EXCEPT ![t] = "fill ask"]
        /\ UNCHANGED <<orders, book, levels, order_asset, posted, thrown, torn, crashed>>
    BY <1>6 DEF Match, Goto
  <2> HIDE DEF locals
  <2> QED
    BY <1>1, <2>1, <2>2, <2>7, <2>8, MoveTyped
<1>7. ASSUME NEW k \in 1..4, Settle(t, k)
      PROVE  TypeOK'
  <2>1. pc[t] \in Matched
    BY <1>7, LabelFacts DEF Settle
  <2>2. OfSide(loc[t].ask, "ASK") /\ OfSide(loc[t].bid, "BID")
    BY <1>1, <2>1
  <2>3. loc[t].bid \in OrderIds /\ posted[k][loc[t].bid] + 1 \in Nat
    <3>1. loc[t].bid \in OrderIds /\ posted[k] \in [OrderIds -> Nat]
      BY <1>1, <2>2 DEF OfSide
    <3>2. posted[k][loc[t].bid] \in Nat
      BY <3>1
    <3> QED
      BY <3>1, <3>2
  <2>4. posted' = [posted EXCEPT ![k][loc[t].bid] = @ + 1]
    BY <1>7 DEF Settle
  <2>5. (posted \in [1..4 -> [OrderIds -> Nat]])'
    BY <1>1, <2>3, <2>4
  <2>6. UNCHANGED <<orders, book, levels, order_asset, thrown, torn, crashed>>
    BY <1>7 DEF Settle
  <2>7. CASE k < 4
    <3>1. pc' = [pc EXCEPT ![t] = SettleLabel[k + 1]] /\ loc' = [loc EXCEPT ![t] = loc[t]]
      BY <1>7, <2>7 DEF Settle, Goto, TypeOK
    <3>2. SettleLabel[k + 1] \in {"settle 2", "settle 3", "settle 4"}
      <4>1. k = 1 \/ k = 2 \/ k = 3
        BY <2>7
      <4>2. k = 1 => k + 1 = 2
        OBVIOUS
      <4>3. k = 2 => k + 1 = 3
        OBVIOUS
      <4>4. k = 3 => k + 1 = 4
        OBVIOUS
      <4> QED
        BY <4>1, <4>2, <4>3, <4>4, LabelFacts
    <3>3. SettleLabel[k + 1] \in Labels \ {"insert"}
      BY <3>2, LabelSets DEF Matched, Settling
    <3> QED
      BY <1>1, <2>2, <2>5, <2>6, <3>1, <3>3, MoveTyped
  <2>8. CASE ~(k < 4)
    <3>1. pc' = [pc EXCEPT ![t] = "begin"] /\ loc' = [loc EXCEPT ![t] = NoLocals]
      BY <1>7, <2>8 DEF Settle, Goto
    <3>2. "begin" \notin {"bid first", "bid"} \cup Matched /\ "begin" \in Labels \ {"insert"}
      BY LabelSets
    <3> QED
      BY <1>1, <2>5, <2>6, <3>1, <3>2, NoLocalsTyped, MoveTyped
  <2> QED
    BY <2>7, <2>8
<1>8. ASSUME NEW k \in 1..4, SettleFails(t, k)
      PROVE  TypeOK'
  BY <1>1, <1>8, ReturnTyped DEF SettleFails, Throw
<1>9. ASSUME NEW reset \in BOOLEAN, CollectIds(t, reset)
      PROVE  TypeOK'
  <2> DEFINE ids == IF reset THEN book ELSE {o \in book : orders[o].closed}
             locals == [loc[t] EXCEPT !.reset = reset, !.ids = ids]
  <2>1. ids \subseteq OrderIds
    BY DEF TypeOK
  <2>2. locals \in Locals
    BY <1>1, <2>1 DEF Locals
  <2>3. loc' = [loc EXCEPT ![t] = locals] /\ pc' = [pc EXCEPT ![t] = "remove"]
        /\ UNCHANGED <<orders, book, levels, order_asset, posted, thrown, torn, crashed>>
    BY <1>9 DEF CollectIds, Goto, IsOpen
  <2>4. "remove" \notin {"bid first", "bid"} \cup Matched /\ "remove" \in Labels \ {"insert"}
    BY LabelSets
  <2> HIDE DEF locals
  <2> QED
    BY <1>1, <2>2, <2>3, <2>4, MoveTyped
<1>10. CASE RemoveEnd(t)
  <2>1. CASE Return(t)
    BY <1>1, <1>10, <2>1, ReturnTyped DEF RemoveEnd
  <2>2. CASE Goto(t, "set asset") /\ UNCHANGED loc
    <3>1. pc' = [pc EXCEPT ![t] = "set asset"] /\ loc' = [loc EXCEPT ![t] = loc[t]]
      BY <2>2 DEF Goto, TypeOK
    <3>2. /\ "set asset" \notin {"bid first", "bid"} \cup Matched
          /\ "set asset" \in Labels \ {"insert"}
      BY LabelSets
    <3> QED
      BY <1>1, <1>10, <3>1, <3>2, MoveTyped DEF RemoveEnd
  <2> QED
    BY <1>10, <2>1, <2>2 DEF RemoveEnd
<1>11. ASSUME NEW asset \in Assets, SetAsset(t, asset)
       PROVE  TypeOK'
  <2>1. /\ order_asset' \in Assets
        /\ UNCHANGED <<orders, book, levels, posted, thrown, torn, crashed>>
        /\ pc' = [pc EXCEPT ![t] = "idle"] /\ loc' = [loc EXCEPT ![t] = NoLocals]
    BY <1>11 DEF SetAsset, Return, Goto
  <2>2. "idle" \in Labels /\ "idle" \notin {"bid first", "bid"} \cup Matched
    BY LabelSets
  <2> QED
    BY <2>1, <2>2, NoLocalsTyped DEF TypeOK, Pending, OfSide, Price, Locals
<1>12. ASSUME NEW side \in Sides, Close(t, side)
       PROVE  TypeOK'
  <2>1. PICK label \in {ShutLabel[side], ClosedNext(side)} :
          /\ pc' = [pc EXCEPT ![t] = label] /\ loc' = [loc EXCEPT ![t] = loc[t]]
          /\ UNCHANGED <<orders, book, levels, order_asset, posted, thrown, torn, crashed>>
    BY <1>12 DEF Close, Goto, TypeOK
  <2>2. pc[t] \in Matched /\ label \in Labels \ {"insert"}
    BY <1>12, SideLabels, LabelSets DEF Close
  <2> QED
    BY <1>1, <2>1, <2>2, MoveTyped
<1>13. ASSUME NEW o \in OrderIds, Cancel(t, o)
       PROVE  TypeOK'
  <2> DEFINE locals == [loc[t] EXCEPT !.mine = o]
  <2>1. /\ loc' = [loc EXCEPT ![t] = locals] /\ pc' = [pc EXCEPT ![t] = "cancel"]
        /\ UNCHANGED <<orders, book, levels, order_asset, posted, thrown, torn, crashed>>
    BY <1>13 DEF Cancel, Goto
  <2>2. /\ "cancel" \notin {"bid first", "bid"} \cup Matched
        /\ "cancel" \in Labels \ {"insert"} /\ locals \in Locals
    BY <1>1, LabelSets DEF Locals
  <2> HIDE DEF locals
  <2> QED
    BY <1>1, <2>1, <2>2, MoveTyped
<1>14. ASSUME NEW o \in OrderIds, Finds(t, o)
       PROVE  TypeOK'
  <2>1. /\ loc' = [loc EXCEPT ![t] = loc[t]] /\ pc' = [pc EXCEPT ![t] = "removing"]
        /\ UNCHANGED <<orders, book, levels, order_asset, posted, thrown, torn, crashed>>
    BY <1>14 DEF Finds, Remove, Goto, TypeOK
  <2>2. /\ "removing" \notin {"bid first", "bid"} \cup Matched
        /\ "removing" \in Labels \ {"insert"}
    BY LabelSets
  <2> QED
    BY <1>1, <2>1, <2>2, MoveTyped
<1> QED
  BY <1>2, <1>3, <1>4, <1>5, <1>6, <1>7, <1>8, <1>9, <1>10, <1>11, <1>12, <1>13, <1>14
     DEF QuietStep

Order == [terms: Terms, available: Nat, closed: BOOLEAN]
NoOrderYet == [terms |-> NoTerms, available |-> 0, closed |-> FALSE]

\* The steps that change orders never change the terms of one that is placed.
LEMMA OrdersTyped ==
    ASSUME TypeOK, NEW t \in Clients,
           (orders \in [OrderIds -> {NoOrderYet} \cup Order])',
           \A o \in Placed : orders'[o].terms = orders[o].terms,
           book' \subseteq book, torn' \subseteq Clients,
           UNCHANGED <<levels, order_asset, posted, thrown, crashed>>,
           NEW label \in Labels \ {"bid first", "bid"},
           NEW locals \in Locals,
           pc' = [pc EXCEPT ![t] = label], loc' = [loc EXCEPT ![t] = locals],
           label = "insert" => locals.mine \in OrderIds
                               /\ orders'[locals.mine].terms \in Terms,
           label \in Matched => OfSide(locals.ask, "ASK") /\ OfSide(locals.bid, "BID")
    PROVE  TypeOK'
<1>1. (/\ levels \in [Sides -> SUBSET Prices]
       /\ order_asset \in Assets
       /\ posted \in [1..4 -> [OrderIds -> Nat]]
       /\ thrown \in BOOLEAN /\ crashed \in BOOLEAN)'
  BY DEF TypeOK
<1>2. (/\ pc \in [Clients -> Labels]
       /\ loc \in [Clients -> Locals])'
  BY DEF TypeOK, Locals
<1>3. /\ book \subseteq Placed /\ book \subseteq OrderIds
      /\ \A o \in book : orders[o].terms \in Terms /\ Price(o) \in levels[orders[o].terms.type]
  BY PlacedTerms DEF TypeOK
<1>4. (/\ book \subseteq OrderIds
       /\ \A o \in book :
            orders[o].terms \in Terms /\ Price(o) \in levels[orders[o].terms.type])'
  BY <1>3 DEF Price
<1>5. ASSUME NEW o, NEW side, OfSide(o, side)
      PROVE  OfSide(o, side)'
  BY <1>5, PlacedTerms DEF OfSide
<1>6. ASSUME NEW u \in Clients
      PROVE  (/\ pc[u] = "insert" => Pending(u)
              /\ pc[u] \in {"bid first", "bid"} \cup Matched => OfSide(loc[u].ask, "ASK")
              /\ pc[u] \in Matched => OfSide(loc[u].bid, "BID"))'
  <2>1. CASE u = t
    <3>1. pc'[u] = label /\ loc'[u] = locals /\ label \notin {"bid first", "bid"}
      BY <2>1 DEF TypeOK
    <3>2. label \in Matched => OfSide(locals.ask, "ASK")' /\ OfSide(locals.bid, "BID")'
      BY <1>5
    <3> QED
      BY <3>1, <3>2 DEF OfSide, Pending
  <2>2. CASE u # t
    <3>1. pc'[u] = pc[u] /\ loc'[u] = loc[u]
      BY <2>2 DEF TypeOK
    <3>2. /\ pc[u] = "insert" => Pending(u)
          /\ pc[u] \in {"bid first", "bid"} \cup Matched => OfSide(loc[u].ask, "ASK")
          /\ pc[u] \in Matched => OfSide(loc[u].bid, "BID")
      BY DEF TypeOK
    <3>3. Pending(u) => Pending(u)'
      BY <3>1, PlacedTerms DEF Pending
    <3>4. OfSide(loc[u].ask, "ASK") => OfSide(loc[u].ask, "ASK")'
      BY <3>1, PlacedTerms DEF OfSide
    <3>5. OfSide(loc[u].bid, "BID") => OfSide(loc[u].bid, "BID")'
      BY <3>1, PlacedTerms DEF OfSide
    <3> QED
      BY <3>1, <3>2, <3>3, <3>4, <3>5
  <2> QED
    BY <2>1, <2>2
<1> QED
  BY <1>1, <1>2, <1>4, <1>6 DEF TypeOK, Locals, Order, NoOrderYet

\* A new order has an id of its own; every other order is as it was.
LEMMA PlaceOrders ==
    ASSUME TypeOK, InOrder, NEW t \in Clients, NEW terms \in OrdersOf[t], Place(t, terms)
    PROVE  LET o == Cardinality(Placed) + 1
               order == [terms |-> terms, available |-> terms.volume, closed |-> FALSE]
           IN  /\ o \in OrderIds \ Placed /\ Placed' = Placed \cup {o}
               /\ order \in Order /\ orders' = [orders EXCEPT ![o] = order]
               /\ InOrder'
<1> DEFINE o == Cardinality(Placed) + 1
           order == [terms |-> terms, available |-> terms.volume, closed |-> FALSE]
<1>1. o \in OrderIds /\ orders' = [orders EXCEPT ![o] = order]
  BY DEF Place
<1>2. PICK n \in Nat : Placed = 1..n /\ Cardinality(Placed) = n
  BY NextId
<1>3. o \notin Placed
  BY NextId
<1>4. order.terms \in Terms /\ terms.volume \in Nat
  <2>1. terms \in Terms
    BY CallsAssumption
  <2> QED
    BY <2>1, VolumesAssumption DEF Terms
<1>5. order \in Order
  BY <1>4 DEF Order
<1>6. order.terms # NoTerms
  BY <1>4, NoTermsAreNone
<1> HIDE DEF order
<1>7. Placed' = Placed \cup {o}
  <2>1. orders \in [OrderIds -> {NoOrderYet} \cup Order]
    BY DEF TypeOK, NoOrderYet, Order
  <2> HIDE DEF o
  <2>2. \A p \in OrderIds : orders'[p] = IF p = o THEN order ELSE orders[p]
    BY <1>1, <2>1
  <2> QED
    BY <1>1, <1>6, <2>2 DEF Placed
<1>8. Placed' = 1..(n + 1) /\ n + 1 \in 0..MaxOrders
  BY <1>1, <1>2, <1>7, MaxOrdersAssumption DEF OrderIds
<1> QED
  BY <1>1, <1>3, <1>5, <1>7, <1>8 DEF order, InOrder

LEMMA PlaceTyped ==
    ASSUME TypeOK, InOrder, NEW t \in Clients, NEW terms \in OrdersOf[t], Place(t, terms)
    PROVE  TypeOK'
<1> DEFINE o == Cardinality(Placed) + 1
           locals == [loc[t] EXCEPT !.mine = o]
<1>1. PICK order \in Order : orders' = [orders EXCEPT ![o] = order]
  BY PlaceOrders
<1>2. o \in OrderIds \ Placed
  BY PlaceOrders
<1>3. orders \in [OrderIds -> {NoOrderYet} \cup Order]
  BY DEF TypeOK, NoOrderYet, Order
<1>4. /\ loc' = [loc EXCEPT ![t] = locals] /\ pc' = [pc EXCEPT ![t] = "insert"]
      /\ UNCHANGED <<book, levels, order_asset, posted, thrown, torn, crashed>>
  BY DEF Place, Goto
<1>5. torn \subseteq Clients /\ loc[t] \in Locals
  BY DEF TypeOK, Locals
<1>6. locals \in Locals /\ locals.mine = o
  BY <1>2, <1>5 DEF Locals
<1> HIDE DEF o, locals
<1>7. (orders \in [OrderIds -> {NoOrderYet} \cup Order])'
  BY <1>1, <1>2, <1>3
<1>8. \A p \in Placed : orders'[p].terms = orders[p].terms
  BY <1>1, <1>2, <1>3 DEF Placed
<1>9. orders'[o].terms \in Terms
  BY <1>1, <1>2, <1>3 DEF Order
<1>10. "insert" \in Labels \ {"bid first", "bid"} /\ "insert" \notin Matched
  BY LabelSets
<1> QED
  BY <1>2, <1>4, <1>5, <1>6, <1>7, <1>8, <1>9, <1>10, OrdersTyped

LEMMA InsertTyped ==
    ASSUME TypeOK, NEW t \in Clients, Insert(t)
    PROVE  TypeOK'
<1> DEFINE o == loc[t].mine
           side == orders[o].terms.type
<1>1. o \in OrderIds /\ orders[o].terms \in Terms
  BY DEF Insert, TypeOK, Pending
<1>2. side \in Sides /\ Price(o) \in Prices
  BY <1>1 DEF Terms, Price
<1>3. /\ book' = book \cup {o} /\ levels' = [levels EXCEPT ![side] = @ \cup {Price(o)}]
      /\ torn' = torn \cup (Scanning \ {t})
      /\ pc' = [pc EXCEPT ![t] = "begin"] /\ loc' = [loc EXCEPT ![t] = NoLocals]
      /\ UNCHANGED <<orders, order_asset, posted, thrown, crashed>>
  BY DEF Insert, Tear, Goto
<1> HIDE DEF o, side
<1>4. (/\ orders \in [OrderIds ->
             {[terms |-> NoTerms, available |-> 0, closed |-> FALSE]}
               \cup [terms: Terms, available: Nat, closed: BOOLEAN]]
       /\ book \subseteq OrderIds
       /\ levels \in [Sides -> SUBSET Prices]
       /\ order_asset \in Assets
       /\ posted \in [1..4 -> [OrderIds -> Nat]]
       /\ thrown \in BOOLEAN /\ crashed \in BOOLEAN
       /\ torn \subseteq Clients)'
  BY <1>1, <1>2, <1>3 DEF TypeOK, Scanning
<1>5. (/\ pc \in [Clients -> Labels]
       /\ loc \in [Clients -> Locals])'
  BY <1>3, NoLocalsTyped, LabelSets DEF TypeOK, Locals
<1>6. ASSUME NEW p \in book'
      PROVE  (orders[p].terms \in Terms /\ Price(p) \in levels[orders[p].terms.type])'
  <2>1. levels \in [Sides -> SUBSET Prices]
    BY DEF TypeOK
  <2>2. CASE p = o
    BY <1>1, <1>2, <1>3, <2>1, <2>2 DEF Price, side
  <2>3. CASE p \in book
    <3>1. orders[p].terms \in Terms /\ Price(p) \in levels[orders[p].terms.type]
      BY <2>3 DEF TypeOK
    <3>2. orders[p].terms.type \in Sides
      BY <3>1 DEF Terms
    <3>3. levels[orders[p].terms.type] \subseteq levels'[orders[p].terms.type]
      BY <1>2, <1>3, <2>1, <3>2
    <3> QED
      BY <1>3, <3>1, <3>3 DEF Price
  <2> QED
    BY <1>3, <1>6, <2>2, <2>3
<1>7. ASSUME NEW u \in Clients
      PROVE  (/\ pc[u] = "insert" => Pending(u)
              /\ pc[u] \in {"bid first", "bid"} \cup Matched => OfSide(loc[u].ask, "ASK")
              /\ pc[u] \in Matched => OfSide(loc[u].bid, "BID"))'
  <2>1. pc'[u] = (IF u = t THEN "begin" ELSE pc[u]) /\ (u # t => loc'[u] = loc[u])
    BY <1>3 DEF TypeOK
  <2>2. /\ pc[u] = "insert" => Pending(u)
        /\ pc[u] \in {"bid first", "bid"} \cup Matched => OfSide(loc[u].ask, "ASK")
        /\ pc[u] \in Matched => OfSide(loc[u].bid, "BID")
    BY DEF TypeOK
  <2>3. CASE u = t
    BY <2>1, <2>3 DEF Matched, Filling, Settling
  <2>4. CASE u # t
    <3>1. pc'[u] = pc[u] /\ loc'[u] = loc[u] /\ UNCHANGED orders
      BY <1>3, <2>1, <2>4
    <3> QED
      BY <2>2, <3>1 DEF OfSide, Pending
  <2> QED
    BY <2>3, <2>4
<1> QED
  BY <1>4, <1>5, <1>6, <1>7 DEF TypeOK, Locals

\* An order that is written: by a fill, by the close of one, by a cancellation
\* or by a removal.
LEMMA WriteOrders ==
    ASSUME TypeOK, NEW o \in Placed, NEW written \in Order,
           written.terms = orders[o].terms, orders[o].closed => written.closed,
           orders' = [orders EXCEPT ![o] = written]
    PROVE  /\ (orders \in [OrderIds -> {NoOrderYet} \cup Order])'
           /\ \A p \in OrderIds : orders'[p].terms = orders[p].terms
           /\ \A p \in OrderIds : orders[p].closed => orders'[p].closed
           /\ \A p \in OrderIds \ {o} : orders'[p] = orders[p]
           /\ orders'[o] = written
<1>1. orders \in [OrderIds -> {NoOrderYet} \cup Order] /\ o \in OrderIds
  BY DEF TypeOK, NoOrderYet, Order, Placed
<1>2. \A p \in OrderIds : orders'[p] = IF p = o THEN written ELSE orders[p]
  BY <1>1
<1>3. (orders \in [OrderIds -> {NoOrderYet} \cup Order])'
  BY <1>1
<1> QED
  BY <1>1, <1>2, <1>3

\* The steps that write an order of the book or of a match: which one, and how.
Writes(t) ==
    \/ \E side \in Sides : Fill(t, side) \/ Shut(t, side)
    \/ CancelCloses(t)
Writing(t) ==
    IF pc[t] = "cancel" THEN loc[t].mine
    ELSE IF pc[t] \in {"fill ask", "shut ask"} THEN loc[t].ask ELSE loc[t].bid
-----------------------------------------------------------------------------
(* The life of an order.                                                   *)

\* The orders that have been entered in the book, if only for a while.
Known == {o \in Placed : \A t \in Clients : pc[t] = "insert" => loc[t].mine # o}

\* An order that waits to be entered belongs to one client, is open and not in
\* the book; no other client holds it; an order that is out of the book for
\* good is closed.
LifeRight ==
    /\ \A t \in Clients : pc[t] = "insert" =>
         loc[t].mine \in Placed \ book /\ IsOpen(loc[t].mine)
    /\ \A t, u \in Clients :
         pc[t] = "insert" /\ pc[u] = "insert" /\ loc[t].mine = loc[u].mine => t = u
    /\ \A t \in Clients : /\ loc[t].ids \subseteq Known
                          /\ {loc[t].ask, loc[t].bid} \subseteq Known \cup {NoOrder}
    /\ \A o \in Known \ book : orders[o].closed

\* One client at a time is in a close() that keeps the market's lock, and the
\* order it closes stays in the book meanwhile.
Holds(t) == pc[t] \in {"cancel", "removing"}
LockRight ==
    /\ \A t, u \in Clients : Holds(t) /\ Holds(u) => t = u
    /\ \A t \in Clients : pc[t] = "cancel" => loc[t].mine \in book
    /\ \A t \in Clients : pc[t] = "removing" => \E o \in book : IsNext(t, o)

Inv == TypeOK /\ InOrder /\ LifeRight /\ LockRight

LEMMA BookKnown ==
    ASSUME TypeOK, LifeRight
    PROVE  book \subseteq Known /\ Known \subseteq OrderIds
<1>1. book \subseteq Placed /\ Placed \subseteq OrderIds
  BY PlacedTerms DEF Placed
<1> QED
  BY <1>1 DEF LifeRight, Known

LEMMA LifeInit == Init => LifeRight /\ LockRight
<1> SUFFICES ASSUME Init
             PROVE  LifeRight /\ LockRight
  OBVIOUS
<1>1. Placed = {}
  BY DEF Init, Placed
<1>2. \A t \in Clients : pc[t] = "idle" /\ loc[t] = NoLocals
  BY DEF Init
<1> QED
  BY <1>1, <1>2 DEF LifeRight, LockRight, Holds, NoLocals, Known

\* Which orders a step that leaves the books alone leaves in a client's hands.
LEMMA QuietEffect ==
    ASSUME TypeOK, NEW t \in Clients, QuietStep(t)
    PROVE  /\ UNCHANGED <<orders, book, levels>>
           /\ torn' \subseteq torn
           /\ pc[t] # "insert" /\ pc'[t] # "insert"
           /\ \A u \in Clients \ {t} : pc'[u] = pc[u] /\ loc'[u] = loc[u]
           /\ loc'[t].ids \subseteq loc[t].ids \cup book
           /\ {loc'[t].ask, loc'[t].bid} \subseteq {loc[t].ask, loc[t].bid, NoOrder} \cup book
<1>1. /\ loc[t] \in Locals /\ DOMAIN pc = Clients /\ DOMAIN loc = Clients
      /\ pc \in [Clients -> Labels]
      /\ loc \in [Clients -> Locals]
  BY DEF TypeOK, Locals
<1>2. /\ NoLocals.ids = {} /\ NoLocals.ask = NoOrder /\ NoLocals.bid = NoOrder
  BY DEF NoLocals
<1>3. UNCHANGED <<orders, book, levels>> /\ torn' \subseteq torn
  BY EndTornFacts DEF QuietStep, Begin, AskScan, BidFirst, BidScan, Match, Close, Settle,
     SettleFails, Cancel, Finds, Remove, CollectIds, RemoveEnd, SetAsset
<1>4. ASSUME Return(t)
      PROVE  /\ pc'[t] # "insert" /\ loc'[t] = NoLocals
             /\ \A u \in Clients \ {t} : pc'[u] = pc[u] /\ loc'[u] = loc[u]
  BY <1>1, <1>4 DEF Return, Goto
<1>5. ASSUME NEW side \in Sides, NEW turn \in Scan(t, side), FindsNone(t, turn), pc[t] # "insert"
      PROVE  /\ pc'[t] # "insert"
             /\ \A u \in Clients \ {t} : pc'[u] = pc[u] /\ loc'[u] = loc[u]
             /\ loc'[t].ids \subseteq loc[t].ids
             /\ {loc'[t].ask, loc'[t].bid} \subseteq {loc[t].ask, loc[t].bid, NoOrder}
  <2>1. CASE Return(t)
    BY <1>2, <1>4, <2>1
  <2>2. CASE loc' = [loc EXCEPT ![t].at = turn[2]] /\ UNCHANGED pc
    BY <1>1, <1>5, <2>2 DEF Locals
  <2>3. CASE UNCHANGED <<pc, loc>>
    BY <1>5, <2>3
  <2> QED
    BY <1>5, <2>1, <2>2, <2>3 DEF FindsNone
<1>6. CASE Begin(t)
  <2>1. pc[t] # "insert"
    BY <1>6 DEF Begin
  <2>2. CASE Return(t)
    BY <1>2, <1>3, <1>4, <2>1, <2>2
  <2>3. CASE \E price \in levels["ASK"] :
               loc' = [loc EXCEPT ![t].at = price] /\ Goto(t, "ask")
    <3>1. PICK price : loc' = [loc EXCEPT ![t].at = price] /\ Goto(t, "ask")
      BY <2>3
    <3>2. /\ loc'[t].ask = loc[t].ask /\ loc'[t].bid = loc[t].bid
          /\ loc'[t].ids = loc[t].ids
          /\ \A u \in Clients \ {t} : loc'[u] = loc[u]
      BY <1>1, <3>1 DEF Locals
    <3>3. pc'[t] # "insert" /\ \A u \in Clients \ {t} : pc'[u] = pc[u]
      BY <1>1, <3>1 DEF Goto
    <3> QED
      BY <1>3, <2>1, <3>2, <3>3
  <2> QED
    BY <1>6, <2>2, <2>3 DEF Begin
<1>7. CASE AskScan(t)
  <2>1. PICK turn \in Scan(t, "ASK") :
          \/ /\ turn[1] = "found"
             /\ loc' = [loc EXCEPT ![t].ask = turn[2], ![t].at = Price(turn[2])]
             /\ Goto(t, "bid first")
          \/ FindsNone(t, turn)
    BY <1>7 DEF AskScan
  <2>2. "ASK" \in Sides /\ pc[t] = "ask"
    BY <1>7 DEF AskScan, Sides
  <2>3. CASE FindsNone(t, turn)
    BY <1>3, <1>5, <2>2, <2>3
  <2>4. CASE ~FindsNone(t, turn)
    <3> DEFINE price == Price(turn[2])
    <3>1. turn[2] \in book
      BY <2>1, <2>2, <2>4, FoundOfSide
    <3>2. loc' = [loc EXCEPT ![t].ask = turn[2], ![t].at = price] /\ Goto(t, "bid first")
      BY <2>1, <2>4
    <3> HIDE DEF price
    <3> QED
      BY <1>1, <1>3, <2>2, <3>1, <3>2 DEF Goto, Locals
  <2> QED
    BY <2>3, <2>4
<1>8. CASE BidFirst(t)
  <2>1. pc[t] # "insert"
    BY <1>8 DEF BidFirst
  <2>2. CASE Return(t)
    BY <1>2, <1>3, <1>4, <2>1, <2>2
  <2>3. CASE \E price \in levels["BID"] :
               loc' = [loc EXCEPT ![t].at = price] /\ Goto(t, "bid")
    <3>1. PICK price : loc' = [loc EXCEPT ![t].at = price] /\ Goto(t, "bid")
      BY <2>3
    <3>2. /\ loc'[t].ask = loc[t].ask /\ loc'[t].bid = loc[t].bid
          /\ loc'[t].ids = loc[t].ids
          /\ \A u \in Clients \ {t} : loc'[u] = loc[u]
      BY <1>1, <3>1 DEF Locals
    <3>3. pc'[t] # "insert" /\ \A u \in Clients \ {t} : pc'[u] = pc[u]
      BY <1>1, <3>1 DEF Goto
    <3> QED
      BY <1>3, <2>1, <3>2, <3>3
  <2> QED
    BY <1>8, <2>2, <2>3 DEF BidFirst
<1>9. CASE BidScan(t)
  <2>1. PICK turn \in Scan(t, "BID") :
          \/ /\ turn[1] = "found"
             /\ Return(t) \/ Crosses(t, turn[2])
          \/ FindsNone(t, turn)
    BY <1>9 DEF BidScan
  <2>2. "BID" \in Sides /\ pc[t] = "bid"
    BY <1>9 DEF BidScan, Sides
  <2>3. CASE FindsNone(t, turn)
    BY <1>3, <1>5, <2>2, <2>3
  <2>4. CASE Return(t)
    BY <1>2, <1>3, <1>4, <2>2, <2>4
  <2>5. CASE turn[1] = "found" /\ Crosses(t, turn[2])
    <3>1. turn[2] \in book
      BY <2>2, <2>5, FoundOfSide
    <3> QED
      BY <1>1, <1>3, <2>2, <2>5, <3>1 DEF Crosses, Goto, Locals
  <2> QED
    BY <2>1, <2>3, <2>4, <2>5
<1>10. CASE Match(t)
  <2> DEFINE dv == NewBid(loc[t].ask, loc[t].bid) - orders[loc[t].bid].available
             left == Most(orders[loc[t].ask].available - dv, 0)
             new == NewBid(loc[t].ask, loc[t].bid)
  <2>1. /\ loc' = [loc EXCEPT ![t].dv = dv, ![t].newBid = new, ![t].newAsk = left]
        /\ pc[t] = "match" /\ pc' = [pc EXCEPT ![t] = "fill ask"]
    BY <1>10 DEF Match, Goto
  <2> HIDE DEF dv, left, new
  <2> QED
    BY <1>1, <1>3, <2>1 DEF Locals
<1>11. ASSUME NEW k \in 1..4, Settle(t, k)
       PROVE  /\ pc[t] # "insert" /\ pc'[t] # "insert"
              /\ \A u \in Clients \ {t} : pc'[u] = pc[u] /\ loc'[u] = loc[u]
              /\ loc'[t] \in {loc[t], NoLocals}
  <2>1. pc[t] \in Matched /\ "insert" \notin Matched
    BY <1>11, LabelFacts DEF Settle, Matched, Filling, Settling
  <2>2. \/ \E j \in 1..4 : Goto(t, SettleLabel[j]) /\ UNCHANGED loc
        \/ Goto(t, "begin") /\ loc' = [loc EXCEPT ![t] = NoLocals]
    <3>1. k < 4 => k + 1 \in 1..4
      OBVIOUS
    <3> QED
      BY <1>11, <3>1 DEF Settle
  <2>3. CASE \E j \in 1..4 : Goto(t, SettleLabel[j]) /\ UNCHANGED loc
    BY <1>1, <2>1, <2>3, LabelFacts, ZenonT(30) DEF Goto
  <2>4. CASE Goto(t, "begin") /\ loc' = [loc EXCEPT ![t] = NoLocals]
    BY <1>1, <2>1, <2>4 DEF Goto
  <2> QED
    BY <2>2, <2>3, <2>4
<1>12. ASSUME NEW k \in 1..4, SettleFails(t, k)
       PROVE  pc[t] # "insert" /\ Return(t)
  BY <1>12, LabelFacts DEF SettleFails, Throw, Matched, Filling, Settling
<1>13. ASSUME NEW reset \in BOOLEAN, CollectIds(t, reset)
       PROVE  /\ pc[t] # "insert" /\ pc'[t] # "insert"
              /\ \A u \in Clients \ {t} : pc'[u] = pc[u] /\ loc'[u] = loc[u]
              /\ loc'[t].ids \subseteq book
              /\ loc'[t].ask = loc[t].ask /\ loc'[t].bid = loc[t].bid
  BY <1>1, <1>13 DEF CollectIds, Goto, Locals
<1>14. CASE RemoveEnd(t)
  BY <1>1, <1>2, <1>3, <1>4, <1>14 DEF RemoveEnd, Goto
<1>15. ASSUME NEW asset \in Assets, SetAsset(t, asset)
       PROVE  pc[t] # "insert" /\ Return(t)
  BY <1>15 DEF SetAsset
<1>16. ASSUME NEW side \in Sides, Close(t, side)
       PROVE  /\ pc[t] # "insert" /\ pc'[t] # "insert" /\ loc' = loc
              /\ \A u \in Clients \ {t} : pc'[u] = pc[u]
  <2>1. PICK label \in {ShutLabel[side], ClosedNext(side)} : pc' = [pc EXCEPT ![t] = label]
    BY <1>16 DEF Close, Goto
  <2>2. pc[t] \in Matched /\ label \in Matched /\ "insert" \notin Matched /\ loc' = loc
    BY <1>16, SideLabels, LabelSets DEF Close
  <2> QED
    BY <1>1, <2>1, <2>2
<1>17. ASSUME NEW o \in OrderIds, Cancel(t, o)
       PROVE  /\ pc[t] # "insert" /\ pc'[t] # "insert"
              /\ \A u \in Clients \ {t} : pc'[u] = pc[u] /\ loc'[u] = loc[u]
              /\ loc'[t].ids = loc[t].ids
              /\ loc'[t].ask = loc[t].ask /\ loc'[t].bid = loc[t].bid
  BY <1>1, <1>17 DEF Cancel, Goto, Locals
<1>18. ASSUME NEW o \in OrderIds, Finds(t, o)
       PROVE  /\ pc[t] # "insert" /\ pc'[t] # "insert" /\ loc' = loc
              /\ \A u \in Clients \ {t} : pc'[u] = pc[u]
  BY <1>1, <1>18 DEF Finds, Remove, Goto
<1>19. CASE \E side \in Sides : Close(t, side)
  BY <1>3, <1>16, <1>19
<1>20. CASE \E o \in OrderIds : Cancel(t, o) \/ Finds(t, o)
  BY <1>3, <1>17, <1>18, <1>20
<1>21. CASE \E k \in 1..4 : Settle(t, k)
  BY <1>2, <1>3, <1>11, <1>21
<1>22. CASE \E reset \in BOOLEAN : CollectIds(t, reset)
  BY <1>3, <1>13, <1>22
<1>23. CASE pc[t] # "insert" /\ Return(t)
  BY <1>2, <1>3, <1>4, <1>23
<1> QED
  BY <1>6, <1>7, <1>8, <1>9, <1>10, <1>12, <1>14, <1>15, <1>21, <1>22, <1>23, <1>19, <1>20
     DEF QuietStep

\* Where a client is that has found an order open and will close it.
Closing == {"shut ask", "shut bid", "cancel", "removing"}

\* Which quiet steps find an order open.
LEMMA QuietPc ==
    ASSUME TypeOK, NEW t \in Clients, QuietStep(t)
    PROVE  /\ pc[t] \notin Closing
           /\ pc'[t] \in Closing =>
                \/ \E side \in Sides : Close(t, side) /\ pc'[t] = ShutLabel[side]
                \/ \E o \in OrderIds : Cancel(t, o) /\ pc'[t] = "cancel"
                \/ \E o \in OrderIds : Finds(t, o) /\ pc'[t] = "removing"
<1>1. DOMAIN pc = Clients
  BY DEF TypeOK
<1>2. ASSUME Begin(t) \/ BidFirst(t) \/ Match(t) \/ RemoveEnd(t)
      PROVE  pc[t] \notin Closing /\ pc'[t] \notin Closing
  BY <1>1, <1>2 DEF Begin, BidFirst, Match, RemoveEnd, Return, Goto, Closing
<1>3. ASSUME AskScan(t) \/ BidScan(t)
      PROVE  pc[t] \notin Closing /\ pc'[t] \notin Closing
  <2>1. pc'[t] \in {pc[t], "idle", "bid first", "match"}
    BY <1>1, <1>3 DEF AskScan, BidScan, FindsNone, Crosses, Return, Goto
  <2> QED
    BY <1>3, <2>1 DEF AskScan, BidScan, Closing
<1>4. ASSUME NEW side \in Sides, Close(t, side)
      PROVE  /\ pc[t] \notin Closing
             /\ pc'[t] \in Closing => pc'[t] = ShutLabel[side]
  <2>1. side = "ASK" \/ side = "BID"
    BY DEF Sides
  <2>2. pc'[t] = ShutLabel[side] \/ pc'[t] = ClosedNext(side)
    BY <1>1, <1>4 DEF Close, Goto
  <2>3. ClosedNext(side) \notin Closing
    BY <2>1 DEF ClosedNext, Closing
  <2>4. CloseLabel[side] \notin Closing
    BY <2>1, SideLabels DEF Closing
  <2> QED
    BY <1>4, <2>2, <2>3, <2>4 DEF Close
<1>5. ASSUME NEW k \in 1..4, Settle(t, k) \/ SettleFails(t, k)
      PROVE  pc[t] \notin Closing /\ pc'[t] \notin Closing
  <2>1. \A j \in 1..4 : SettleLabel[j] \notin Closing
    <3>1. \A j \in 1..4 : j = 1 \/ j = 2 \/ j = 3 \/ j = 4
      OBVIOUS
    <3> QED
      BY <3>1, LabelFacts DEF Closing
  <2>2. k < 4 => k + 1 \in 1..4
    OBVIOUS
  <2>3. pc'[t] \in {"idle", "begin"} \/ \E j \in 1..4 : pc'[t] = SettleLabel[j]
    BY <1>1, <1>5, <2>2 DEF Settle, SettleFails, Throw, Return, Goto
  <2> QED
    BY <1>5, <2>1, <2>3 DEF Settle, SettleFails, Closing
<1>6. ASSUME NEW o \in OrderIds, Cancel(t, o) \/ Finds(t, o)
      PROVE  /\ pc[t] \notin Closing
             /\ \/ Cancel(t, o) /\ pc'[t] = "cancel"
                \/ Finds(t, o) /\ pc'[t] = "removing"
  <2>1. CASE Cancel(t, o)
    BY <1>1, <2>1 DEF Cancel, Goto, Closing
  <2>2. CASE Finds(t, o)
    BY <1>1, <2>2 DEF Finds, Remove, Goto, Closing
  <2> QED
    BY <1>6, <2>1, <2>2
<1>7. ASSUME NEW reset \in BOOLEAN, CollectIds(t, reset)
      PROVE  pc[t] \notin Closing /\ pc'[t] \notin Closing
  BY <1>1, <1>7 DEF CollectIds, Goto, Closing
<1>8. ASSUME NEW asset \in Assets, SetAsset(t, asset)
      PROVE  pc[t] \notin Closing /\ pc'[t] \notin Closing
  BY <1>1, <1>8 DEF SetAsset, Return, Goto, Closing
<1> QED
  BY <1>2, <1>3, <1>4, <1>5, <1>6, <1>7, <1>8 DEF QuietStep

\* What the steps of clients that hold no new order have in common: terms stay,
\* only orders that are known change, what is closed stays closed, and an order
\* leaves the book closed.
Keeps(t) ==
    /\ \A o \in OrderIds : orders'[o].terms = orders[o].terms
    /\ \A o \in OrderIds : orders[o].closed => orders'[o].closed
    /\ \A o \in OrderIds \ Known : orders'[o] = orders[o]
    /\ book' \subseteq book /\ \A o \in book \ book' : orders'[o].closed
    /\ pc[t] # "insert" /\ pc'[t] # "insert"
    /\ \A u \in Clients \ {t} : pc'[u] = pc[u] /\ loc'[u] = loc[u]
    /\ loc'[t].ids \subseteq loc[t].ids \cup book
    /\ {loc'[t].ask, loc'[t].bid} \subseteq {loc[t].ask, loc[t].bid, NoOrder} \cup book

LEMMA LifeKept ==
    ASSUME TypeOK, LifeRight, NEW t \in Clients, Keeps(t)
    PROVE  LifeRight' /\ Known' = Known /\ Placed' = Placed
<1>1. Placed' = Placed
  BY DEF Keeps, Placed
<1>2. \A u \in Clients : /\ pc'[u] = "insert" <=> pc[u] = "insert"
                         /\ pc[u] = "insert" => loc'[u] = loc[u]
  BY DEF Keeps
<1>3. Known' = Known
  BY <1>1, <1>2 DEF Known
<1>4. book \subseteq Known /\ Known \subseteq OrderIds /\ Placed \subseteq OrderIds
  BY BookKnown DEF Placed
<1>5. ASSUME NEW u \in Clients, pc'[u] = "insert"
      PROVE  loc'[u].mine \in Placed' \ book' /\ ~orders'[loc'[u].mine].closed
  <2>1. pc[u] = "insert" /\ loc'[u] = loc[u]
    BY <1>2, <1>5
  <2>2. loc[u].mine \in Placed \ book /\ ~orders[loc[u].mine].closed
    BY <2>1 DEF LifeRight, IsOpen
  <2>3. loc[u].mine \notin Known
    BY <2>1 DEF Known
  <2> QED
    BY <1>1, <1>4, <2>1, <2>2, <2>3 DEF Keeps
<1>6. \A u, v \in Clients :
        pc'[u] = "insert" /\ pc'[v] = "insert" /\ loc'[u].mine = loc'[v].mine => u = v
  BY <1>2 DEF LifeRight
<1>7. ASSUME NEW u \in Clients
      PROVE  /\ loc'[u].ids \subseteq Known'
             /\ {loc'[u].ask, loc'[u].bid} \subseteq Known' \cup {NoOrder}
  <2>1. /\ loc[u].ids \subseteq Known
        /\ {loc[u].ask, loc[u].bid} \subseteq Known \cup {NoOrder}
    BY DEF LifeRight
  <2> QED
    BY <1>3, <1>4, <2>1 DEF Keeps
<1>8. ASSUME NEW o \in Known' \ book'
      PROVE  orders'[o].closed
  <2>1. CASE o \in book
    BY <1>8, <2>1 DEF Keeps
  <2>2. CASE o \notin book
    BY <1>3, <1>4, <1>8, <2>2 DEF Keeps, LifeRight
  <2> QED
    BY <2>1, <2>2
<1> QED
  BY <1>1, <1>3, <1>5, <1>6, <1>7, <1>8 DEF LifeRight, IsOpen

LEMMA QuietKeeps ==
    ASSUME TypeOK, NEW t \in Clients, QuietStep(t)
    PROVE  Keeps(t)
  BY QuietEffect DEF Keeps

\* What a fill, the close of a match and that of a cancellation write, and where
\* they leave the client.
Write(t, o, written, label, locals) ==
    /\ o = Writing(t) /\ orders' = [orders EXCEPT ![o] = written]
    /\ written.terms = orders[o].terms
    /\ written.closed <=> (orders[o].closed \/ pc[t] \in Closing)
    /\ \/ written.available = orders[o].available
       \/ orders[o].terms.type = "ASK"
       \/ written.available = orders[o].terms.volume
       \/ /\ pc[t] \in Filling /\ o = loc[t].bid
          /\ written.available = loc[t].newBid
    /\ pc' = [pc EXCEPT ![t] = label] /\ loc' = [loc EXCEPT ![t] = locals]
    /\ UNCHANGED <<book, levels, order_asset, posted, thrown, torn, crashed>>
    /\ \/ pc[t] = "cancel" /\ label = "idle" /\ locals = NoLocals
       \/ /\ pc[t] \in {"fill ask", "fill bid", "shut ask", "shut bid"}
          /\ label \in {"fill bid", "close ask", "close bid", "settle 1"}
          /\ locals = loc[t]

LEMMA WriteFacts ==
    ASSUME TypeOK, LifeRight, LockRight, NEW t \in Clients, Writes(t)
    PROVE  \E o \in Known, written \in Order, label \in Labels, locals \in Locals :
             Write(t, o, written, label, locals)
<1>1. /\ loc[t] \in Locals /\ DOMAIN pc = Clients /\ loc \in [Clients -> Locals]
      /\ orders \in [OrderIds -> {NoOrderYet} \cup Order] /\ book \subseteq OrderIds
  BY DEF TypeOK, Locals, NoOrderYet, Order
<1>2. ASSUME NEW o \in Placed
      PROVE  orders[o] \in Order /\ o \in OrderIds
  BY <1>2, PlacedTerms DEF Order, Placed
<1>3. pc[t] \in Matched =>
        /\ loc[t].ask \in Known /\ loc[t].bid \in Known
        /\ orders[loc[t].ask].terms.type = "ASK"
  <2> SUFFICES ASSUME pc[t] \in Matched
               PROVE  /\ loc[t].ask \in Known /\ loc[t].bid \in Known
                      /\ orders[loc[t].ask].terms.type = "ASK"
    OBVIOUS
  <2>1. OfSide(loc[t].ask, "ASK") /\ OfSide(loc[t].bid, "BID")
    BY DEF TypeOK
  <2>2. loc[t].ask # NoOrder /\ loc[t].bid # NoOrder
    BY <2>1, IdsAreNumbers DEF OfSide
  <2> QED
    BY <2>1, <2>2 DEF LifeRight, OfSide
<1>4. ASSUME NEW side \in Sides, Fill(t, side) \/ Shut(t, side)
      PROVE  /\ pc[t] \in Matched /\ Mine(t, side) \in Known /\ Mine(t, side) = Writing(t)
             /\ side = "ASK" => orders[Mine(t, side)].terms.type = "ASK"
             /\ side = "BID" => Mine(t, side) = loc[t].bid
             /\ side = "ASK" \/ side = "BID"
             /\ Left(t, side) \in Nat /\ Whole(t, side) \in Nat
  <2>1. side = "ASK" \/ side = "BID"
    BY DEF Sides
  <2>2. pc[t] \in Matched
    BY <1>4, SideLabels DEF Fill, Shut
  <2>3. Left(t, side) \in Nat
    BY <1>1 DEF Left, Locals
  <2>4. loc[t].bid \in Placed /\ orders[loc[t].bid].terms \in Terms
    BY <1>2, <1>3, <2>2 DEF Known, Order
  <2>5. Whole(t, side) \in Nat
    BY <2>4, VolumesAssumption DEF Whole, Terms
  <2>6. CASE side = "ASK"
    <3>1. pc[t] \in {"fill ask", "shut ask"}
      BY <1>4, <2>6, SideLabels DEF Fill, Shut
    <3> QED
      BY <1>3, <2>2, <2>3, <2>5, <2>6, <3>1 DEF Mine, Writing
  <2>7. CASE side = "BID"
    <3>1. pc[t] \in {"fill bid", "shut bid"}
      BY <1>4, <2>7, SideLabels DEF Fill, Shut
    <3> QED
      BY <1>3, <2>2, <2>3, <2>5, <2>7, <3>1 DEF Mine, Writing
  <2> QED
    BY <2>1, <2>6, <2>7
<1>5. /\ {"fill bid", "close ask", "close bid", "settle 1", "idle"} \subseteq Labels
      /\ NoLocals \in Locals
  BY LabelSets, NoLocalsTyped DEF Matched, Filling, Settling
<1>6. ASSUME NEW side \in Sides, Fill(t, side)
      PROVE  \E o \in Known, written \in Order, label \in Labels, locals \in Locals :
               Write(t, o, written, label, locals)
  <2>1. PICK o \in Known : o = Mine(t, side)
    BY <1>4, <1>6
  <2>2. orders[o] \in Order
    BY <1>2 DEF Known
  <2> DEFINE written == [orders[o] EXCEPT !.available = Left(t, side)]
  <2>3. /\ written \in Order /\ written.terms = orders[o].terms
        /\ written.closed = orders[o].closed /\ written.available = Left(t, side)
    BY <1>4, <1>6, <2>2 DEF Order
  <2>4. orders' = [orders EXCEPT ![o] = written]
    BY <1>6, <2>1 DEF Fill
  <2> HIDE DEF written
  <2>5. PICK label \in {"fill bid", "close ask"} : pc' = [pc EXCEPT ![t] = label]
    BY <1>6 DEF Fill, Goto
  <2>6. /\ pc[t] \in {"fill ask", "fill bid"} /\ pc[t] \notin Closing /\ pc[t] \in Filling
    <3>1. pc[t] \in {"fill ask", "fill bid"}
      <4>1. side = "ASK" \/ side = "BID"
        BY DEF Sides
      <4>2. pc[t] = FillLabel[side]
        BY <1>6 DEF Fill
      <4> QED
        BY <4>1, <4>2, SideLabels
    <3> QED
      BY <3>1 DEF Closing, Filling
  <2>7. /\ loc' = [loc EXCEPT ![t] = loc[t]]
        /\ UNCHANGED <<book, levels, order_asset, posted, thrown, torn, crashed>>
    BY <1>1, <1>6 DEF Fill
  <2>8. \/ orders[o].terms.type = "ASK"
        \/ o = loc[t].bid /\ written.available = loc[t].newBid
    BY <1>4, <1>6, <2>1, <2>3 DEF Left
  <2>9. o = Writing(t) /\ label \in Labels
    BY <1>4, <1>5, <1>6, <2>1
  <2>10. Write(t, o, written, label, loc[t])
    BY <2>3, <2>4, <2>5, <2>6, <2>7, <2>8, <2>9 DEF Write
  <2> QED
    BY <1>1, <2>3, <2>9, <2>10
<1>7. ASSUME NEW side \in Sides, Shut(t, side)
      PROVE  \E o \in Known, written \in Order, label \in Labels, locals \in Locals :
               Write(t, o, written, label, locals)
  <2>1. PICK o \in Known : o = Mine(t, side)
    BY <1>4, <1>7
  <2>2. orders[o] \in Order
    BY <1>2 DEF Known
  <2> DEFINE written == [orders[o] EXCEPT !.available = Whole(t, side), !.closed = TRUE]
  <2>3. /\ written \in Order /\ written.terms = orders[o].terms
        /\ written.closed = TRUE /\ written.available = Whole(t, side)
    BY <1>4, <1>7, <2>2 DEF Order
  <2>4. orders' = [orders EXCEPT ![o] = written]
    BY <1>7, <2>1 DEF Shut
  <2> HIDE DEF written
  <2>5. PICK label \in {"close bid", "settle 1"} : pc' = [pc EXCEPT ![t] = label]
    BY <1>7 DEF Shut, Goto, ClosedNext
  <2>6. pc[t] \in {"shut ask", "shut bid"} /\ pc[t] \in Closing
    <3>1. pc[t] \in {"shut ask", "shut bid"}
      <4>1. side = "ASK" \/ side = "BID"
        BY DEF Sides
      <4>2. pc[t] = ShutLabel[side]
        BY <1>7 DEF Shut
      <4> QED
        BY <4>1, <4>2, SideLabels
    <3> QED
      BY <3>1 DEF Closing
  <2>7. /\ loc' = [loc EXCEPT ![t] = loc[t]]
        /\ UNCHANGED <<book, levels, order_asset, posted, thrown, torn, crashed>>
    BY <1>1, <1>7 DEF Shut
  <2>8. \/ orders[o].terms.type = "ASK"
        \/ written.available = orders[o].terms.volume
    BY <1>4, <1>7, <2>1, <2>3 DEF Whole
  <2>9. o = Writing(t) /\ label \in Labels
    BY <1>4, <1>5, <1>7, <2>1
  <2>10. Write(t, o, written, label, loc[t])
    BY <2>3, <2>4, <2>5, <2>6, <2>7, <2>8, <2>9 DEF Write
  <2> QED
    BY <1>1, <2>3, <2>9, <2>10
<1>8. ASSUME CancelCloses(t)
      PROVE  \E o \in Known, written \in Order, label \in Labels, locals \in Locals :
               Write(t, o, written, label, locals)
  <2>1. pc[t] = "cancel"
    BY <1>8 DEF CancelCloses
  <2>2. PICK o \in Known : o = loc[t].mine
    BY <2>1, BookKnown DEF LockRight
  <2>3. orders[o] \in Order
    BY <1>2 DEF Known
  <2> DEFINE written == [orders[o] EXCEPT !.closed = TRUE]
  <2>4. /\ written \in Order /\ written.terms = orders[o].terms
        /\ written.closed = TRUE /\ written.available = orders[o].available
    BY <2>3 DEF Order
  <2>5. orders' = [orders EXCEPT ![o] = written]
    BY <1>8, <2>2 DEF CancelCloses
  <2> HIDE DEF written
  <2>6. /\ pc' = [pc EXCEPT ![t] = "idle"] /\ loc' = [loc EXCEPT ![t] = NoLocals]
        /\ UNCHANGED <<book, levels, order_asset, posted, thrown, torn, crashed>>
    BY <1>8 DEF CancelCloses, Return, Goto
  <2>7. o = Writing(t) /\ pc[t] \in Closing
    BY <2>1, <2>2 DEF Writing, Closing
  <2>8. Write(t, o, written, "idle", NoLocals)
    BY <2>1, <2>4, <2>5, <2>6, <2>7 DEF Write
  <2> QED
    BY <1>5, <2>4, <2>8
<1>9. CASE \E side \in Sides : Fill(t, side)
  BY <1>6, <1>9
<1>10. CASE \E side \in Sides : Shut(t, side)
  BY <1>7, <1>10
<1> QED
  BY <1>8, <1>9, <1>10 DEF Writes

LEMMA WriteKeeps ==
    ASSUME TypeOK, LifeRight, LockRight, NEW t \in Clients, Writes(t)
    PROVE  /\ Keeps(t) /\ TypeOK'
           /\ pc'[t] \notin ScanLabels \cup {"cancel", "removing"}
           /\ {pc[t], pc'[t]} \cap {"insert", "settle 2", "settle 3", "settle 4"} = {}
           /\ \/ pc[t] = "cancel"
              \/ {pc[t], pc'[t]} \subseteq Matched \ {"match"} /\ loc'[t] = loc[t]
           /\ pc[t] = "cancel" => pc'[t] = "idle"
           /\ UNCHANGED <<book, levels, posted, thrown, torn>>
<1>1. PICK o \in Known, written \in Order, label \in Labels, locals \in Locals :
        Write(t, o, written, label, locals)
  BY WriteFacts
<1>2. /\ orders' = [orders EXCEPT ![o] = written]
      /\ written.terms = orders[o].terms
      /\ written.closed <=> (orders[o].closed \/ pc[t] \in Closing)
      /\ pc' = [pc EXCEPT ![t] = label] /\ loc' = [loc EXCEPT ![t] = locals]
      /\ UNCHANGED <<book, levels, order_asset, posted, thrown, torn, crashed>>
      /\ \/ pc[t] = "cancel" /\ label = "idle" /\ locals = NoLocals
         \/ /\ pc[t] \in {"fill ask", "fill bid", "shut ask", "shut bid"}
            /\ label \in {"fill bid", "close ask", "close bid", "settle 1"}
            /\ locals = loc[t]
  BY <1>1 DEF Write
<1>3. o \in Placed /\ Known \subseteq OrderIds /\ torn \subseteq Clients
      /\ DOMAIN pc = Clients /\ DOMAIN loc = Clients
  BY BookKnown DEF Known, TypeOK
<1>4. /\ (orders \in [OrderIds -> {NoOrderYet} \cup Order])'
      /\ \A p \in OrderIds : orders'[p].terms = orders[p].terms
      /\ \A p \in OrderIds : orders[p].closed => orders'[p].closed
      /\ \A p \in OrderIds \ {o} : orders'[p] = orders[p]
  BY <1>2, <1>3, WriteOrders
<1>5. pc'[t] = label /\ loc'[t] = locals
      /\ \A u \in Clients \ {t} : pc'[u] = pc[u] /\ loc'[u] = loc[u]
  BY <1>2, <1>3
<1>6. /\ label \notin ScanLabels \cup {"cancel", "removing", "insert"}
      /\ label = "idle" \/ {label, pc[t]} \subseteq Matched \ {"match"}
      /\ "idle" \notin Matched
      /\ {pc[t], label} \cap {"insert", "settle 2", "settle 3", "settle 4"} = {}
  BY <1>2 DEF ScanLabels, Matched, Filling, Settling
<1>7. label \in Matched => OfSide(locals.ask, "ASK") /\ OfSide(locals.bid, "BID")
  BY <1>2, <1>6 DEF TypeOK
<1>8. TypeOK'
  <2>1. label \in Labels \ {"bid first", "bid"}
    BY <1>6 DEF ScanLabels
  <2>2. \A p \in Placed : orders'[p].terms = orders[p].terms
    BY <1>4 DEF Placed
  <2> QED
    BY <1>2, <1>3, <1>4, <1>6, <1>7, <2>1, <2>2, OrdersTyped
<1>9. /\ locals.ids \subseteq loc[t].ids
      /\ {locals.ask, locals.bid} \subseteq {loc[t].ask, loc[t].bid, NoOrder}
  <2>1. locals = NoLocals \/ locals = loc[t]
    BY <1>2
  <2>2. NoLocals.ids = {} /\ NoLocals.ask = NoOrder /\ NoLocals.bid = NoOrder
    BY DEF NoLocals
  <2> QED
    BY <2>1, <2>2
<1>10. Keeps(t)
  BY <1>2, <1>3, <1>4, <1>5, <1>6, <1>9 DEF Keeps
<1> QED
  BY <1>2, <1>5, <1>6, <1>8, <1>10

\* What is removed, if it is there at all, is closed.
Removes(t) == \E o \in OrderIds : Erases(t, o) \/ RemoveCloses(t, o)

LEMMA NextIsOne ==
    ASSUME TypeOK, NEW t \in Clients, NEW o, NEW p, IsNext(t, o), IsNext(t, p)
    PROVE  o = p
<1>1. loc[t].ids \subseteq Nat
  <2>1. loc[t] \in Locals
    BY DEF TypeOK, Locals
  <2> QED
    BY <2>1, IdsAreNumbers DEF Locals
<1>2. o \in Nat /\ p \in Nat /\ o <= p /\ p <= o
  BY <1>1 DEF IsNext
<1> QED
  BY <1>2

LEMMA RemoveOrders ==
    ASSUME TypeOK, LifeRight, LockRight, NEW t \in Clients, Removes(t)
    PROVE  /\ Keeps(t) /\ TypeOK'
           /\ \E o \in Known : /\ book' = book \ {o} /\ IsNext(t, o)
                               /\ orders'[o].closed
                               /\ pc[t] = "remove" => orders[o].closed
                               /\ pc[t] = "removing" => o \in book
                               /\ \A p \in OrderIds \ {o} : orders'[p] = orders[p]
                               /\ o \in book => torn' = torn \cup (Scanning \ {t})
                               /\ o \notin book => torn' = torn
           /\ pc[t] \in {"remove", "removing"} /\ pc'[t] = "remove"
           /\ pc[t] = "remove" => MarketFree(t)
           /\ \A p \in OrderIds : orders'[p].available = orders[p].available
           /\ posted' = posted /\ thrown' = thrown
<1>1. PICK o \in OrderIds : Erases(t, o) \/ RemoveCloses(t, o)
  BY DEF Removes
<1>2. /\ IsNext(t, o) /\ o \in loc[t].ids /\ Erase(t, o)
      /\ UNCHANGED <<levels, order_asset, posted, thrown, crashed>>
  BY <1>1 DEF Erases, Remove, RemoveCloses, IsNext
<1>3. o \in Known /\ o \in Placed
  BY <1>2 DEF LifeRight, Known
<1>4. /\ orders \in [OrderIds -> {NoOrderYet} \cup Order] /\ orders[o] \in Order
      /\ DOMAIN pc = Clients /\ loc \in [Clients -> Locals] /\ torn \subseteq Clients
      /\ loc[t] \in Locals
  BY <1>3, PlacedTerms DEF TypeOK, NoOrderYet, Order, Locals
<1>5. /\ pc[t] \in {"remove", "removing"} /\ pc' = [pc EXCEPT ![t] = "remove"]
      /\ pc[t] = "remove" => (MarketFree(t) /\ Erases(t, o))
      /\ pc[t] = "removing" => RemoveCloses(t, o)
  <2>1. CASE Erases(t, o)
    <3>1. pc[t] = "remove" /\ MarketFree(t) /\ UNCHANGED pc
      BY <2>1 DEF Erases, Remove
    <3> QED
      BY <1>4, <2>1, <3>1 DEF TypeOK
  <2>2. CASE RemoveCloses(t, o)
    <3>1. pc[t] = "removing" /\ pc' = [pc EXCEPT ![t] = "remove"]
      BY <2>2 DEF RemoveCloses, Goto
    <3> QED
      BY <2>2, <3>1
  <2> QED
    BY <1>1, <2>1, <2>2
<1>6. pc[t] = "remove" => orders[o].closed /\ orders' = orders
  BY <1>3, <1>5 DEF Erases, Remove, LifeRight, IsOpen
<1>7. pc[t] = "removing" => o \in book
  BY <1>2, NextIsOne DEF LockRight
<1> DEFINE written == [orders[o] EXCEPT !.closed = TRUE]
<1>8. /\ written \in Order /\ written.terms = orders[o].terms
      /\ written.closed = TRUE /\ written.available = orders[o].available
  BY <1>4 DEF Order
<1>9. orders' = [orders EXCEPT ![o] = written]
  <2>1. CASE pc[t] = "removing"
    BY <1>5, <2>1 DEF RemoveCloses
  <2>2. CASE pc[t] = "remove"
    <3>1. written = orders[o]
      BY <1>4, <1>6, <2>2 DEF Order
    <3> QED
      BY <1>4, <1>6, <2>2, <3>1
  <2> QED
    BY <1>5, <2>1, <2>2
<1> HIDE DEF written
<1>10. /\ (orders \in [OrderIds -> {NoOrderYet} \cup Order])'
       /\ \A p \in OrderIds : orders'[p].terms = orders[p].terms
       /\ \A p \in OrderIds : orders[p].closed => orders'[p].closed
       /\ \A p \in OrderIds \ {o} : orders'[p] = orders[p]
       /\ orders'[o] = written
  BY <1>3, <1>8, <1>9, WriteOrders
<1> DEFINE locals == [loc[t] EXCEPT !.ids = @ \ {o}]
<1>11. /\ loc' = [loc EXCEPT ![t] = locals] /\ torn' \subseteq Clients
       /\ book' = book \ {o}
       /\ o \in book => torn' = torn \cup (Scanning \ {t})
       /\ o \notin book => torn' = torn
  BY <1>2, <1>4 DEF Erase, Tear, Scanning
<1>12. /\ locals \in Locals /\ locals.ids \subseteq loc[t].ids
       /\ locals.ask = loc[t].ask /\ locals.bid = loc[t].bid
  BY <1>4 DEF Locals
<1> HIDE DEF locals
<1>13. TypeOK'
  <2>1. "remove" \in Labels \ {"bid first", "bid"} /\ "remove" \notin Matched
    BY LabelSets
  <2>2. \A p \in Placed : orders'[p].terms = orders[p].terms
    BY <1>10 DEF Placed
  <2>3. book' \subseteq book
    BY <1>11
  <2> QED
    BY <1>2, <1>5, <1>10, <1>11, <1>12, <2>1, <2>2, <2>3, OrdersTyped
<1>14. /\ loc'[t] = locals /\ pc'[t] = "remove"
       /\ \A u \in Clients \ {t} : pc'[u] = pc[u] /\ loc'[u] = loc[u]
  BY <1>4, <1>5, <1>11
<1>15. orders'[o].closed
  BY <1>8, <1>10
<1>16. Keeps(t)
  BY <1>3, <1>5, <1>10, <1>11, <1>12, <1>14, <1>15 DEF Keeps
<1>17. \A p \in OrderIds : orders'[p].available = orders[p].available
  BY <1>8, <1>10
<1> QED
  BY <1>2, <1>3, <1>5, <1>6, <1>7, <1>10, <1>11, <1>13, <1>14, <1>15, <1>16, <1>17

LEMMA PlaceLife ==
    ASSUME Inv, NEW t \in Clients, NEW terms \in OrdersOf[t], Place(t, terms)
    PROVE  LifeRight' /\ Known' = Known
<1> DEFINE o == Cardinality(Placed) + 1
<1>1. TypeOK /\ InOrder /\ LifeRight
  BY DEF Inv
<1>2. PICK order \in Order : orders' = [orders EXCEPT ![o] = order] /\ order.closed = FALSE
  <2> DEFINE new == [terms |-> terms, available |-> terms.volume, closed |-> FALSE]
  <2>1. new \in Order /\ orders' = [orders EXCEPT ![o] = new]
    BY <1>1, PlaceOrders
  <2>2. new.closed = FALSE
    OBVIOUS
  <2> QED
    BY <2>1, <2>2
<1>3. o \in OrderIds \ Placed /\ Placed' = Placed \cup {o}
  BY <1>1, PlaceOrders
<1>4. /\ loc' = [loc EXCEPT ![t].mine = o] /\ pc' = [pc EXCEPT ![t] = "insert"]
      /\ pc[t] = "idle" /\ book' = book
  BY DEF Place, Goto
<1>5. DOMAIN orders = OrderIds /\ DOMAIN pc = Clients /\ loc \in [Clients -> Locals]
  BY <1>1 DEF TypeOK, Locals
<1> HIDE DEF o
<1>6. /\ orders'[o].closed = FALSE
      /\ \A p \in Placed : orders'[p] = orders[p]
  BY <1>2, <1>3, <1>5 DEF Placed
<1>7. \A u \in Clients : /\ pc'[u] = IF u = t THEN "insert" ELSE pc[u]
                         /\ loc'[u].mine = IF u = t THEN o ELSE loc[u].mine
                         /\ loc'[u].ids = loc[u].ids
                         /\ loc'[u].ask = loc[u].ask /\ loc'[u].bid = loc[u].bid
  BY <1>4, <1>5 DEF Locals
<1>8. Known' = Known
  BY <1>3, <1>4, <1>7 DEF Known
<1>9. book \subseteq Placed /\ Known \subseteq Placed
  BY <1>1, PlacedTerms DEF Known
<1>10. ASSUME NEW u \in Clients, pc'[u] = "insert"
       PROVE  loc'[u].mine \in Placed' \ book' /\ ~orders'[loc'[u].mine].closed
  <2>1. CASE u = t
    BY <1>3, <1>4, <1>6, <1>7, <1>9, <2>1
  <2>2. CASE u # t
    <3>1. loc[u].mine \in Placed \ book /\ ~orders[loc[u].mine].closed
      BY <1>1, <1>7, <1>10, <2>2 DEF LifeRight, IsOpen
    <3> QED
      BY <1>3, <1>4, <1>6, <1>7, <2>2, <3>1
  <2> QED
    BY <2>1, <2>2
<1>11. ASSUME NEW u \in Clients, NEW v \in Clients, pc'[u] = "insert", pc'[v] = "insert",
              loc'[u].mine = loc'[v].mine
       PROVE  u = v
  BY <1>1, <1>3, <1>7, <1>11 DEF LifeRight
<1>12. \A u \in Clients : /\ loc'[u].ids \subseteq Known'
                          /\ {loc'[u].ask, loc'[u].bid} \subseteq Known' \cup {NoOrder}
  BY <1>1, <1>7, <1>8 DEF LifeRight
<1>13. \A p \in Known' \ book' : orders'[p].closed
  BY <1>1, <1>4, <1>6, <1>8, <1>9 DEF LifeRight
<1> QED
  BY <1>8, <1>10, <1>11, <1>12, <1>13 DEF LifeRight, IsOpen

LEMMA InsertLife ==
    ASSUME TypeOK, LifeRight, NEW t \in Clients, Insert(t)
    PROVE  LifeRight' /\ Known' = Known \cup {loc[t].mine} /\ Placed' = Placed
<1> DEFINE o == loc[t].mine
<1>1. /\ book' = book \cup {o} /\ pc[t] = "insert" /\ orders' = orders
      /\ pc' = [pc EXCEPT ![t] = "begin"] /\ loc' = [loc EXCEPT ![t] = NoLocals]
  BY DEF Insert, Goto
<1>2. \A u \in Clients : /\ pc'[u] = IF u = t THEN "begin" ELSE pc[u]
                         /\ loc'[u] = IF u = t THEN NoLocals ELSE loc[u]
  BY <1>1 DEF TypeOK
<1>3. Placed' = Placed
  BY <1>1 DEF Placed
<1>4. o \in Placed \ book
  BY <1>1 DEF LifeRight
<1>5. Known' = Known \cup {o}
  <2>1. \A u \in Clients \ {t} : pc[u] = "insert" => loc[u].mine # o
    BY <1>1 DEF LifeRight
  <2> QED
    BY <1>1, <1>2, <1>3, <1>4, <2>1 DEF Known
<1> HIDE DEF o
<1>6. ASSUME NEW u \in Clients, pc'[u] = "insert"
      PROVE  loc'[u].mine \in Placed' \ book' /\ ~orders'[loc'[u].mine].closed
  <2>1. u # t /\ pc[u] = "insert" /\ loc'[u] = loc[u]
    BY <1>2, <1>6
  <2>2. loc[u].mine # o
    BY <1>1, <2>1 DEF LifeRight, o
  <2> QED
    BY <1>1, <1>3, <2>1, <2>2 DEF LifeRight, IsOpen
<1>7. \A u, v \in Clients :
        pc'[u] = "insert" /\ pc'[v] = "insert" /\ loc'[u].mine = loc'[v].mine => u = v
  BY <1>2 DEF LifeRight
<1>8. \A u \in Clients : /\ loc'[u].ids \subseteq Known'
                         /\ {loc'[u].ask, loc'[u].bid} \subseteq Known' \cup {NoOrder}
  BY <1>2, <1>5 DEF LifeRight, NoLocals
<1>9. \A p \in Known' \ book' : orders'[p].closed
  BY <1>1, <1>5 DEF LifeRight
<1> QED
  BY <1>3, <1>5, <1>6, <1>7, <1>8, <1>9 DEF LifeRight, IsOpen, o

\* The lock, in a step that lets go of nothing another client holds.
LEMMA LockKept ==
    ASSUME LockRight, NEW t \in Clients,
           \A u \in Clients \ {t} : pc'[u] = pc[u] /\ loc'[u] = loc[u],
           book \subseteq book' \/ \A u \in Clients \ {t} : ~Holds(u),
           pc'[t] \in {"cancel", "removing"} => MarketFree(t),
           pc'[t] = "cancel" => loc'[t].mine \in book',
           pc'[t] = "removing" => \E o \in book' : IsNext(t, o)'
    PROVE  LockRight'
<1>1. MarketFree(t) => \A u \in Clients \ {t} : ~Holds(u)
  BY DEF MarketFree, Holds
<1>2. \A u \in Clients \ {t} : Holds(u)' <=> Holds(u)
  BY DEF Holds
<1>3. \A u, v \in Clients : Holds(u)' /\ Holds(v)' => u = v
  <2>1. Holds(t)' => \A u \in Clients \ {t} : ~Holds(u)
    BY <1>1 DEF Holds
  <2> QED
    BY <1>2, <2>1 DEF LockRight
<1>4. ASSUME NEW u \in Clients, pc'[u] = "cancel"
      PROVE  loc'[u].mine \in book'
  <2>1. CASE u = t
    BY <1>4, <2>1
  <2>2. CASE u # t
    <3>1. pc[u] = "cancel" /\ loc'[u] = loc[u] /\ Holds(u)
      BY <1>4, <2>2 DEF Holds
    <3>2. book \subseteq book'
      BY <2>2, <3>1
    <3> QED
      BY <3>1, <3>2 DEF LockRight
  <2> QED
    BY <2>1, <2>2
<1>5. ASSUME NEW u \in Clients, pc'[u] = "removing"
      PROVE  \E o \in book' : IsNext(u, o)'
  <2>1. CASE u = t
    BY <1>5, <2>1
  <2>2. CASE u # t
    <3>1. pc[u] = "removing" /\ loc'[u] = loc[u] /\ Holds(u)
      BY <1>5, <2>2 DEF Holds
    <3>2. book \subseteq book'
      BY <2>2, <3>1
    <3>3. PICK o \in book : IsNext(u, o)
      BY <3>1 DEF LockRight
    <3>4. IsNext(u, o)'
      BY <3>1, <3>3 DEF IsNext
    <3> QED
      BY <3>2, <3>3, <3>4
  <2> QED
    BY <2>1, <2>2
<1> QED
  BY <1>3, <1>4, <1>5 DEF LockRight

\* The steps of a client, as these proofs go through them.
StepOf(t) ==
    \/ \E terms \in OrdersOf[t] : Place(t, terms)
    \/ Insert(t)
    \/ Writes(t)
    \/ Removes(t)
    \/ QuietStep(t)

LEMMA StepCases ==
    ASSUME Next
    PROVE  ~crashed /\ \E t \in Clients : StepOf(t)
  BY DEF Next, AddStep, StepOf, Writes, Removes, Erases, Finds, QuietStep

LEMMA OrderKept ==
    ASSUME InOrder, Placed' = Placed
    PROVE  InOrder'
  BY DEF InOrder

LEMMA LockStep ==
    ASSUME TypeOK, InOrder, LifeRight, LockRight, NEW t \in Clients, StepOf(t)
    PROVE  LockRight'
<1>1. DOMAIN pc = Clients /\ DOMAIN loc = Clients /\ loc[t] \in Locals
  BY DEF TypeOK, Locals
<1>2. ASSUME NEW terms \in OrdersOf[t], Place(t, terms)
      PROVE  LockRight'
  <2>1. PICK locals : /\ pc' = [pc EXCEPT ![t] = "insert"] /\ book' = book
                      /\ loc' = [loc EXCEPT ![t] = locals]
    BY <1>2 DEF Place, Goto
  <2>2. /\ pc'[t] = "insert"
        /\ \A u \in Clients \ {t} : pc'[u] = pc[u] /\ loc'[u] = loc[u]
    BY <1>1, <2>1
  <2> QED
    BY <2>1, <2>2, LockKept
<1>3. CASE Insert(t)
  <2>1. PICK locals : /\ pc' = [pc EXCEPT ![t] = "begin"] /\ book \subseteq book'
                      /\ loc' = [loc EXCEPT ![t] = locals]
    BY <1>3 DEF Insert, Goto
  <2>2. /\ pc'[t] = "begin"
        /\ \A u \in Clients \ {t} : pc'[u] = pc[u] /\ loc'[u] = loc[u]
    BY <1>1, <2>1
  <2> QED
    BY <2>1, <2>2, LockKept
<1>4. CASE Writes(t)
  <2>1. /\ pc'[t] \notin {"cancel", "removing"} /\ book' = book
        /\ \A u \in Clients \ {t} : pc'[u] = pc[u] /\ loc'[u] = loc[u]
    BY <1>4, WriteKeeps DEF Keeps
  <2> QED
    BY <2>1, LockKept
<1>5. CASE Removes(t)
  <2>1. /\ pc[t] \in {"remove", "removing"} /\ pc'[t] = "remove"
        /\ pc[t] = "remove" => MarketFree(t)
        /\ \A u \in Clients \ {t} : pc'[u] = pc[u] /\ loc'[u] = loc[u]
    BY <1>5, RemoveOrders DEF Keeps
  <2>2. \A u \in Clients \ {t} : ~Holds(u)
    <3>1. CASE pc[t] = "remove"
      BY <2>1, <3>1 DEF MarketFree, Holds
    <3>2. CASE pc[t] = "removing"
      BY <3>2 DEF Holds, LockRight
    <3> QED
      BY <2>1, <3>1, <3>2
  <2> QED
    BY <2>1, <2>2, LockKept
<1>6. CASE QuietStep(t)
  <2>1. /\ \A u \in Clients \ {t} : pc'[u] = pc[u] /\ loc'[u] = loc[u]
        /\ book' = book
    BY <1>6, QuietEffect
  <2>2. CASE pc'[t] \notin {"cancel", "removing"}
    BY <2>1, <2>2, LockKept
  <2>3. CASE \E o \in OrderIds : Cancel(t, o) /\ pc'[t] = "cancel"
    <3>1. PICK o \in OrderIds : Cancel(t, o) /\ pc'[t] = "cancel"
      BY <2>3
    <3>2. MarketFree(t) /\ o \in book /\ loc'[t].mine = o
      BY <1>1, <3>1 DEF Cancel, Locals
    <3> QED
      BY <2>1, <3>1, <3>2, LockKept
  <2>4. CASE \E o \in OrderIds : Finds(t, o) /\ pc'[t] = "removing"
    <3>1. PICK o \in OrderIds : Finds(t, o) /\ pc'[t] = "removing"
      BY <2>4
    <3>2. MarketFree(t) /\ o \in book /\ IsNext(t, o)'
      BY <3>1 DEF Finds, Remove, IsNext
    <3> QED
      BY <2>1, <3>1, <3>2, LockKept
  <2>5. \A side \in Sides : ShutLabel[side] \notin {"cancel", "removing"}
    BY SideLabels DEF Sides
  <2> QED
    BY <1>6, <2>2, <2>3, <2>4, <2>5, QuietPc DEF Closing
<1> QED
  BY <1>2, <1>3, <1>4, <1>5, <1>6 DEF StepOf

LEMMA InvStep == Inv /\ [Next]_vars => Inv'
<1> SUFFICES ASSUME TypeOK, InOrder, LifeRight, LockRight, [Next]_vars
             PROVE  Inv'
  BY DEF Inv
<1>1. CASE UNCHANGED vars
  <2>1. TypeOK'
    BY <1>1 DEF vars, TypeOK, Pending, OfSide, Price
  <2>2. Placed' = Placed /\ Known' = Known
    BY <1>1 DEF vars, Placed, Known
  <2>3. LifeRight' /\ LockRight'
    BY <1>1, <2>2 DEF vars, LifeRight, LockRight, Holds, IsNext, IsOpen
  <2> QED
    BY <2>1, <2>2, <2>3, OrderKept DEF Inv
<1>2. CASE Next
  <2>1. PICK t \in Clients : StepOf(t)
    BY <1>2, StepCases
  <2>2. LockRight'
    BY <2>1, LockStep
  <2>3. CASE \E terms \in OrdersOf[t] : Place(t, terms)
    BY <2>2, <2>3, PlaceTyped, PlaceOrders, PlaceLife DEF Inv
  <2>4. CASE Insert(t)
    BY <2>2, <2>4, InsertTyped, InsertLife, OrderKept DEF Inv
  <2>5. CASE Writes(t)
    BY <2>2, <2>5, WriteKeeps, LifeKept, OrderKept DEF Inv
  <2>6. CASE Removes(t)
    BY <2>2, <2>6, RemoveOrders, LifeKept, OrderKept DEF Inv
  <2>7. CASE QuietStep(t)
    BY <2>2, <2>7, QuietTyped, QuietKeeps, LifeKept, OrderKept DEF Inv
  <2> QED
    BY <2>1, <2>3, <2>4, <2>5, <2>6, <2>7 DEF StepOf
<1> QED
  BY <1>1, <1>2

LEMMA Invariance == Spec => []Inv
<1>1. Init => Inv
  BY TypeInit, LifeInit DEF Inv
<1> QED
  BY <1>1, InvStep, PTL DEF Spec

\* The market never uses an order that is not there: whatever the calls, every
\* client works on orders that exist and that are of the sides it takes them for.
THEOREM TypeCorrect == Spec => []TypeOK
<1>1. Inv => TypeOK
  BY DEF Inv
<1> QED
  BY <1>1, Invariance, PTL

\* Where each order stands in its life.
Standing ==
    \A o \in OrderIds :
      Status(o) = IF o \in book THEN IF orders[o].closed THEN "closed" ELSE "open"
                  ELSE IF o \in Known THEN "removed" ELSE "none"

LEMMA Lives == Inv => Standing
<1> SUFFICES ASSUME Inv, NEW o \in OrderIds
             PROVE  Status(o) = IF o \in book
                                THEN IF orders[o].closed THEN "closed" ELSE "open"
                                ELSE IF o \in Known THEN "removed" ELSE "none"
  BY DEF Standing
<1>1. book \subseteq Known /\ (o \in Known \ book => orders[o].closed)
  BY BookKnown DEF Inv, LifeRight
<1>2. o \notin Known <=> o \notin Placed \/ \E t \in Clients : pc[t] = "insert" /\ loc[t].mine = o
  BY DEF Known
<1> QED
  BY <1>1, <1>2 DEF Status, IsOpen

LEMMA LivesNext == Inv' => Standing'
  BY Lives, PTL


\* Which order each client has found open.
Looks ==
    \A t \in Clients :
      /\ pc[t] = "shut ask" => Looking(t) = loc[t].ask
      /\ pc[t] = "shut bid" => Looking(t) = loc[t].bid
      /\ pc[t] = "cancel" => Looking(t) = loc[t].mine
      /\ pc[t] = "removing" => IsNext(t, Looking(t))
      /\ pc[t] \notin Closing => Looking(t) = NoOrder

LEMMA LooksAt == Inv => Looks
<1> SUFFICES ASSUME Inv, NEW t \in Clients
             PROVE  /\ pc[t] = "shut ask" => Looking(t) = loc[t].ask
                    /\ pc[t] = "shut bid" => Looking(t) = loc[t].bid
                    /\ pc[t] = "cancel" => Looking(t) = loc[t].mine
                    /\ pc[t] = "removing" => IsNext(t, Looking(t))
                    /\ pc[t] \notin Closing => Looking(t) = NoOrder
  BY DEF Looks
<1>1. ASSUME pc[t] = "removing"
      PROVE  IsNext(t, Looking(t))
  <2>1. \E o \in loc[t].ids : IsNext(t, o)
    BY <1>1 DEF Inv, LockRight, IsNext
  <2>2. Looking(t) = CHOOSE o \in loc[t].ids : IsNext(t, o)
    BY <1>1 DEF Looking
  <2> QED
    BY <2>1, <2>2
<1> QED
  BY <1>1 DEF Looking, Closing

LEMMA LooksNext == Inv' => Looks'
  BY LooksAt, PTL

\* A client that does not step looks at what it looked at.
LEMMA LookKept ==
    ASSUME Inv, Inv', NEW u \in Clients, pc'[u] = pc[u], loc'[u] = loc[u]
    PROVE  Looking(u)' = Looking(u)
<1>1. Looks /\ Looks'
  BY LooksAt, LooksNext
<1>2. CASE pc[u] = "removing"
  <2>1. IsNext(u, Looking(u)) /\ IsNext(u, Looking(u))'
    BY <1>1, <1>2 DEF Looks
  <2>2. IsNext(u, Looking(u)')
    BY <2>1 DEF IsNext
  <2> QED
    BY <2>1, <2>2, NextIsOne DEF Inv
<1>3. CASE pc[u] # "removing"
  BY <1>1, <1>3 DEF Looks, Closing
<1> QED
  BY <1>2, <1>3

\* What the mapping makes of a state.
Standings == [o \in OrderIds |-> Status(o)]
Finders == [t \in Clients |-> Looking(t)]
Sayings == [o \in OrderIds |-> IF Status(o) = "none" THEN NoTerms ELSE orders[o].terms]

\* Only the client that steps comes to look at another order.
LEMMA FindersChange ==
    ASSUME Inv, Inv', NEW t \in Clients,
           \A u \in Clients \ {t} : pc'[u] = pc[u] /\ loc'[u] = loc[u]
    PROVE  Finders' = [Finders EXCEPT ![t] = Looking(t)']
<1>1. \A u \in Clients \ {t} : Looking(u)' = Looking(u)
  BY LookKept
<1> QED
  BY <1>1 DEF Finders

LEMMA FindersKept ==
    ASSUME Inv, Inv', NEW t \in Clients,
           \A u \in Clients \ {t} : pc'[u] = pc[u] /\ loc'[u] = loc[u],
           pc[t] \notin Closing, pc'[t] \notin Closing
    PROVE  Finders' = Finders
<1>1. Looking(t) = NoOrder /\ Looking(t)' = NoOrder
  BY LooksAt, LooksNext DEF Looks
<1>2. \A u \in Clients \ {t} : Looking(u)' = Looking(u)
  BY LookKept
<1> QED
  BY <1>1, <1>2 DEF Finders

\* A step after which every order stands where it did.
LEMMA StandingsKept ==
    ASSUME Inv, Inv', book' = book, Known' = Known,
           \A o \in book : orders'[o].closed <=> orders[o].closed,
           \A o \in Known : orders'[o].terms = orders[o].terms
    PROVE  Standings' = Standings /\ Sayings' = Sayings
<1>1. ASSUME NEW o \in OrderIds
      PROVE  Status(o)' = Status(o) /\ (Status(o) # "none" => o \in Known)
  <2>1. book \subseteq Known
    BY BookKnown DEF Inv
  <2> QED
    BY <2>1, Lives, LivesNext DEF Standing
<1>2. Standings' = Standings
  BY <1>1 DEF Standings
<1>3. Sayings' = Sayings
  BY <1>1 DEF Sayings
<1> QED
  BY <1>2, <1>3

\* A step after which one order stands elsewhere: what it says stays, and
\* nothing is said of an order before it is opened.
LEMMA StandingChanges ==
    ASSUME Inv, Inv', NEW o \in Known, Known' = Known,
           book' \in {book, book \ {o}},
           \A p \in OrderIds : orders'[p].terms = orders[p].terms,
           \A p \in OrderIds \ {o} : orders'[p].closed <=> orders[p].closed
    PROVE  /\ Standings' = [Standings EXCEPT ![o] = Status(o)']
           /\ Sayings' = Sayings
<1>1. book \subseteq Known /\ o \in OrderIds
  BY BookKnown DEF Inv
<1>2. \A p \in OrderIds \ {o} : Status(p)' = Status(p)
  BY <1>1, Lives, LivesNext DEF Standing
<1>3. Status(o) # "none" /\ Status(o)' # "none"
  BY <1>1, Lives, LivesNext DEF Standing
<1>4. Standings' = [Standings EXCEPT ![o] = Status(o)']
  BY <1>2 DEF Standings
<1>5. \A p \in OrderIds : Status(p)' = "none" <=> Status(p) = "none"
  BY <1>2, <1>3
<1>6. Sayings' = Sayings
  BY <1>5 DEF Sayings
<1> QED
  BY <1>4, <1>6

LifeUnchanged == UNCHANGED <<Standings, Finders, Sayings>>

\* A close() that finds its order open.
LEMMA LifeLooks ==
    ASSUME Inv, Inv', NEW t \in Clients, QuietStep(t)
    PROVE  Life!Next \/ LifeUnchanged
<1>1. /\ Known' = Known /\ UNCHANGED <<orders, book>>
      /\ \A u \in Clients \ {t} : pc'[u] = pc[u] /\ loc'[u] = loc[u]
      /\ pc[t] \notin Closing
  BY QuietEffect, QuietKeeps, QuietPc, LifeKept DEF Inv
<1>2. Standings' = Standings /\ Sayings' = Sayings
  BY <1>1, StandingsKept
<1>3. CASE pc'[t] \notin Closing
  BY <1>1, <1>2, <1>3, FindersKept DEF LifeUnchanged
<1>4. CASE pc'[t] \in Closing
  <2>1. \E o \in book : IsOpen(o) /\ Looking(t)' = o
    <3>1. DOMAIN pc = Clients /\ loc \in [Clients -> Locals]
      BY DEF Inv, TypeOK, Locals
    <3>2. CASE \E side \in Sides : Close(t, side) /\ pc'[t] = ShutLabel[side]
      <4>1. PICK side \in Sides : Close(t, side) /\ pc'[t] = ShutLabel[side]
        BY <3>2
      <4>2. side = "ASK" \/ side = "BID"
        BY DEF Sides
      <4>3. ShutLabel[side] # ClosedNext(side)
        BY <4>2, SideLabels DEF ClosedNext
      <4>4. IsOpen(Mine(t, side)) /\ loc' = loc /\ pc[t] \in Matched
        BY <3>1, <4>1, <4>3, SideLabels DEF Close, Goto
      <4>5. OfSide(loc[t].ask, "ASK") /\ OfSide(loc[t].bid, "BID")
        BY <4>4 DEF Inv, TypeOK
      <4>6. Mine(t, side) \in Known
        BY <4>5, IdsAreNumbers DEF OfSide, Mine, Inv, LifeRight
      <4>7. Mine(t, side) \in book
        BY <4>4, <4>6 DEF Inv, LifeRight, IsOpen
      <4>8. Looking(t)' = Mine(t, side)
        BY <4>1, <4>2, <4>4, SideLabels, LooksNext DEF Looks, Mine
      <4> QED
        BY <4>4, <4>7, <4>8
    <3>3. CASE \E o \in OrderIds : Cancel(t, o) /\ pc'[t] = "cancel"
      <4>1. PICK o \in OrderIds : Cancel(t, o) /\ pc'[t] = "cancel"
        BY <3>3
      <4>2. o \in book /\ IsOpen(o) /\ loc'[t].mine = o
        BY <3>1, <4>1 DEF Cancel, Locals
      <4>3. Looking(t)' = o
        BY <4>1, <4>2, LooksNext DEF Looks
      <4> QED
        BY <4>2, <4>3
    <3>4. CASE \E o \in OrderIds : Finds(t, o) /\ pc'[t] = "removing"
      <4>1. PICK o \in OrderIds : Finds(t, o) /\ pc'[t] = "removing"
        BY <3>4
      <4>2. o \in book /\ IsOpen(o) /\ IsNext(t, o) /\ loc' = loc
        BY <4>1 DEF Finds, Remove
      <4>3. IsNext(t, Looking(t))'
        BY <4>1, LooksNext DEF Looks
      <4>4. IsNext(t, Looking(t)')
        BY <4>2, <4>3 DEF IsNext
      <4> QED
        BY <4>2, <4>4, NextIsOne DEF Inv
    <3> QED
      BY <1>4, <3>2, <3>3, <3>4, QuietPc DEF Inv
  <2>2. PICK o \in book : IsOpen(o) /\ Looking(t)' = o
    BY <2>1
  <2>3. o \in OrderIds /\ Status(o) = "open"
    BY <2>2, Lives DEF Standing, IsOpen, Inv, TypeOK
  <2>4. Standings[o] = "open"
    BY <2>3 DEF Standings
  <2>5. Finders[t] = NoOrder
    BY <1>1, LooksAt DEF Looks, Finders
  <2>6. Finders' = [Finders EXCEPT ![t] = o]
    BY <1>1, <2>2, FindersChange
  <2>7. Life!Look(t, o)
    BY <1>2, <2>4, <2>5, <2>6 DEF Life!Look, Standings, Finders, Sayings
  <2> QED
    BY <2>3, <2>7 DEF Life!Next
<1> QED
  BY <1>3, <1>4

\* A fill writes what an order is left with, and a close() closes the order its
\* client has found open, whatever became of it.
LEMMA LifeCloses ==
    ASSUME Inv, Inv', NEW t \in Clients, Writes(t)
    PROVE  Life!Next \/ LifeUnchanged
<1>1. PICK o \in Known, written \in Order, label \in Labels, locals \in Locals :
        Write(t, o, written, label, locals)
  BY WriteFacts DEF Inv
<1>2. /\ Known' = Known /\ book' = book
      /\ \A u \in Clients \ {t} : pc'[u] = pc[u] /\ loc'[u] = loc[u]
      /\ pc'[t] \notin Closing
  <2>1. Keeps(t) /\ book' = book
    BY WriteKeeps DEF Inv
  <2>2. pc'[t] = label
    BY <1>1 DEF Write, Inv, TypeOK
  <2>3. label \notin Closing
    BY <1>1 DEF Write, Closing
  <2> QED
    BY <2>1, <2>2, <2>3, LifeKept DEF Inv, Keeps
<1>3. /\ \A p \in OrderIds : orders'[p].terms = orders[p].terms
      /\ \A p \in OrderIds \ {o} : orders'[p] = orders[p]
      /\ orders'[o] = written /\ o \in OrderIds
  BY <1>1, WriteOrders DEF Write, Inv, Known, Placed
<1>4. book \subseteq Known /\ Known \subseteq OrderIds
  BY BookKnown DEF Inv
<1>5. CASE pc[t] \notin Closing
  <2>1. \A p \in OrderIds : orders'[p].closed <=> orders[p].closed
    BY <1>1, <1>3, <1>5 DEF Write
  <2>2. Standings' = Standings /\ Sayings' = Sayings
    BY <1>2, <1>3, <1>4, <2>1, StandingsKept
  <2>3. Finders' = Finders
    BY <1>2, <1>5, FindersKept
  <2> QED
    BY <2>2, <2>3 DEF LifeUnchanged
<1>6. CASE pc[t] \in Closing
  <2>1. o = Looking(t)
    <3>1. pc[t] \in {"shut ask", "shut bid", "cancel"} /\ o = Writing(t)
      BY <1>1, <1>6 DEF Write, Closing
    <3> QED
      BY <3>1, LooksAt DEF Looks, Writing
  <2>2. orders'[o].closed
    BY <1>1, <1>3, <1>6 DEF Write
  <2>3. Status(o)' = IF Status(o) = "open" THEN "closed" ELSE Status(o)
    BY <1>2, <1>3, <1>4, <2>2, Lives, LivesNext DEF Standing
  <2>4. Standings' = [Standings EXCEPT ![o] = Status(o)'] /\ Sayings' = Sayings
    BY <1>2, <1>3, StandingChanges
  <2>5. Finders[t] = o /\ o # NoOrder
    <3>1. o # NoOrder
      BY <1>3, IdsAreNumbers
    <3> QED
      BY <2>1, <3>1 DEF Finders
  <2>6. Looking(t)' = NoOrder
    BY <1>2, LooksNext DEF Looks
  <2>7. Finders' = [Finders EXCEPT ![t] = NoOrder]
    BY <1>2, <2>6, FindersChange
  <2>8. Standings' = [Standings EXCEPT ![Finders[t]] = IF @ = "open" THEN "closed" ELSE @]
    BY <1>3, <2>3, <2>4, <2>5 DEF Standings
  <2>9. Life!Close(t)
    BY <2>4, <2>5, <2>7, <2>8 DEF Life!Close, Standings, Finders, Sayings
  <2> QED
    BY <2>9 DEF Life!Next
<1> QED
  BY <1>5, <1>6

LEMMA LifeOpens ==
    ASSUME Inv, Inv', NEW t \in Clients, Insert(t)
    PROVE  Life!Next
<1>1. PICK o : o = loc[t].mine
  OBVIOUS
<1>2. /\ book' = book \cup {o} /\ orders' = orders
      /\ o \in Placed \ book /\ ~orders[o].closed /\ o \notin Known
      /\ pc[t] = "insert"
  BY <1>1 DEF Insert, Inv, LifeRight, IsOpen, Known
<1>3. Known' = Known \cup {o}
  BY <1>1, InsertLife DEF Inv
<1>4. o \in OrderIds /\ orders[o].terms \in Terms
  BY <1>1, <1>2 DEF Inv, TypeOK, Pending
<1>5. Status(o) = "none" /\ Status(o)' = "open"
  BY <1>2, <1>3, <1>4, Lives, LivesNext DEF Standing
<1>6. ASSUME NEW p \in OrderIds, p # o
      PROVE  Status(p)' = Status(p)
  BY <1>2, <1>3, <1>6, Lives, LivesNext DEF Standing
<1>7. Standings' = [Standings EXCEPT ![o] = "open"] /\ Standings[o] = "none"
  BY <1>4, <1>5, <1>6 DEF Standings
<1>8. Sayings' = [Sayings EXCEPT ![o] = orders[o].terms]
  BY <1>2, <1>4, <1>5, <1>6 DEF Sayings
<1>9. Finders' = Finders
  <2>1. /\ pc' = [pc EXCEPT ![t] = "begin"] /\ loc' = [loc EXCEPT ![t] = NoLocals]
        /\ DOMAIN pc = Clients /\ DOMAIN loc = Clients
    BY DEF Insert, Goto, Inv, TypeOK
  <2>2. /\ pc'[t] = "begin"
        /\ \A u \in Clients \ {t} : pc'[u] = pc[u] /\ loc'[u] = loc[u]
    BY <2>1
  <2> QED
    BY <1>2, <2>2, FindersKept DEF Closing
<1>10. Life!Open(o)
  BY <1>4, <1>7, <1>8, <1>9 DEF Life!Open, Standings, Finders, Sayings
<1> QED
  BY <1>4, <1>10 DEF Life!Next

LEMMA LifeRemoves ==
    ASSUME Inv, Inv', NEW t \in Clients, Removes(t)
    PROVE  Life!Next \/ LifeUnchanged
<1>1. PICK o \in Known : /\ book' = book \ {o} /\ IsNext(t, o)
                         /\ orders'[o].closed
                         /\ pc[t] = "remove" => orders[o].closed
                         /\ pc[t] = "removing" => o \in book
                         /\ \A p \in OrderIds \ {o} : orders'[p] = orders[p]
  BY RemoveOrders DEF Inv
<1>2. /\ Known' = Known
      /\ \A p \in OrderIds : orders'[p].terms = orders[p].terms
      /\ \A u \in Clients \ {t} : pc'[u] = pc[u] /\ loc'[u] = loc[u]
      /\ pc[t] \in {"remove", "removing"} /\ pc'[t] = "remove"
  BY RemoveOrders, LifeKept DEF Inv, Keeps
<1>3. book \subseteq Known /\ Known \subseteq OrderIds
  BY BookKnown DEF Inv
<1>4. CASE o \notin book
  <2>1. pc[t] = "remove"
    BY <1>1, <1>2, <1>4
  <2>2. book' = book /\ \A p \in book : orders'[p].closed <=> orders[p].closed
    BY <1>1, <1>3, <1>4, <2>1
  <2>3. Finders' = Finders
    BY <1>2, <2>1, FindersKept DEF Closing
  <2> QED
    BY <1>2, <1>3, <2>2, <2>3, StandingsKept DEF LifeUnchanged
<1>5. CASE o \in book
  <2>1. Status(o)' = "removed"
    BY <1>1, <1>2, <1>3, <1>5, LivesNext DEF Standing
  <2>2. Standings' = [Standings EXCEPT ![o] = "removed"] /\ Sayings' = Sayings
    <3>1. \A p \in OrderIds \ {o} : orders'[p].closed <=> orders[p].closed
      BY <1>1
    <3> QED
      BY <1>1, <1>2, <2>1, <3>1, StandingChanges
  <2>3. Standings[o] = IF orders[o].closed THEN "closed" ELSE "open"
    BY <1>3, <1>5, Lives DEF Standing, Standings
  <2>4. CASE pc[t] = "remove"
    <3>1. Standings[o] = "closed"
      BY <1>1, <2>3, <2>4
    <3>2. Finders' = Finders
      BY <1>2, <2>4, FindersKept DEF Closing
    <3>3. Life!Remove(o)
      BY <2>2, <3>1, <3>2 DEF Life!Remove, Standings, Finders, Sayings
    <3> QED
      BY <1>3, <1>5, <3>3 DEF Life!Next
  <2>5. CASE pc[t] = "removing"
    <3>1. Finders[t] = o
      <4>1. IsNext(t, Looking(t))
        BY <2>5, LooksAt DEF Looks
      <4> QED
        BY <1>1, <4>1, NextIsOne DEF Inv, Finders
    <3>2. Looking(t)' = NoOrder
      BY <1>2, LooksNext DEF Looks, Closing
    <3>3. Finders' = [Finders EXCEPT ![t] = NoOrder]
      BY <1>2, <3>2, FindersChange
    <3>4. Standings[o] \in {"open", "closed"}
      BY <2>3
    <3>5. Life!Remove(o)
      BY <2>2, <3>1, <3>3, <3>4 DEF Life!Remove, Standings, Finders, Sayings
    <3> QED
      BY <1>3, <1>5, <3>5 DEF Life!Next
  <2> QED
    BY <1>2, <2>4, <2>5
<1> QED
  BY <1>4, <1>5

LEMMA LifeStep ==
    ASSUME Inv, Inv', Next
    PROVE  Life!Next \/ LifeUnchanged
<1>1. PICK t \in Clients : StepOf(t)
  BY StepCases
<1>2. ASSUME NEW terms \in OrdersOf[t], Place(t, terms)
      PROVE  LifeUnchanged
  <2>1. PICK order : orders' = [orders EXCEPT ![Cardinality(Placed) + 1] = order]
    BY <1>2, PlaceOrders DEF Inv
  <2>2. Cardinality(Placed) + 1 \notin Placed /\ Known' = Known /\ book' = book
    BY <1>2, PlaceOrders, PlaceLife DEF Inv, Place
  <2>3. \A o \in Placed : orders'[o] = orders[o]
    BY <2>1, <2>2 DEF Placed, Inv, TypeOK
  <2>4. book \subseteq Placed /\ Known \subseteq Placed
    BY PlacedTerms DEF Inv, Known
  <2>5. Standings' = Standings /\ Sayings' = Sayings
    BY <2>2, <2>3, <2>4, StandingsKept
  <2>6. PICK locals : /\ pc' = [pc EXCEPT ![t] = "insert"] /\ pc[t] = "idle"
                      /\ loc' = [loc EXCEPT ![t] = locals]
    BY <1>2 DEF Place, Goto
  <2>7. /\ pc'[t] = "insert"
        /\ \A u \in Clients \ {t} : pc'[u] = pc[u] /\ loc'[u] = loc[u]
    BY <2>6 DEF Inv, TypeOK
  <2> QED
    BY <2>5, <2>6, <2>7, FindersKept DEF LifeUnchanged, Closing
<1> QED
  BY <1>1, <1>2, LifeOpens, LifeCloses, LifeRemoves, LifeLooks DEF StepOf

\* However the calls of any number of clients overlap, the market keeps the
\* life of every order: opened once on fixed terms, closed only by those that
\* found it open, never open again, removed once.
THEOREM LifeImplemented == Spec => ImplementsOrderLife
<1>1. Init => Life!Init
  <2> SUFFICES ASSUME Init
               PROVE  Life!Init
    OBVIOUS
  <2>1. Inv
    BY TypeInit, LifeInit DEF Inv
  <2>2. book = {} /\ Placed = {} /\ \A t \in Clients : pc[t] = "idle"
    BY DEF Init, Placed
  <2>3. \A o \in OrderIds : Status(o) = "none"
    BY <2>1, <2>2, Lives DEF Standing, Known
  <2>4. \A t \in Clients : Looking(t) = NoOrder
    BY <2>1, <2>2, LooksAt DEF Looks, Closing
  <2> QED
    BY <2>3, <2>4 DEF Life!Init
<1>2. Inv /\ Inv' /\ [Next]_vars => [Life!Next]_(Life!lifeVars)
  <2> SUFFICES ASSUME Inv, Inv', [Next]_vars
               PROVE  Life!Next \/ UNCHANGED Life!lifeVars
    OBVIOUS
  <2>1. Life!Next \/ LifeUnchanged
    <3>1. CASE UNCHANGED vars
      <4>1. book' = book /\ Known' = Known /\ orders' = orders
        BY <3>1 DEF vars, Known, Placed
      <4>2. \A u \in Clients : Looking(u)' = Looking(u)
        BY <3>1, LookKept DEF vars
      <4>3. Finders' = Finders
        BY <4>2 DEF Finders
      <4> QED
        BY <4>1, <4>3, StandingsKept DEF LifeUnchanged
    <3> QED
      BY <3>1, LifeStep
  <2> QED
    BY <2>1 DEF LifeUnchanged, Life!lifeVars, Standings, Finders, Sayings
<1> QED
  BY <1>1, <1>2, Invariance, PTL DEF Spec, ImplementsOrderLife, Life!Spec
-----------------------------------------------------------------------------
(* What a scan has passed.                                                 *)

\* No open order heads a better level than those the scan of t has left: the
\* asks below its position, the bids above it.
ScanRight(t) ==
    /\ pc[t] = "ask" => \A a \in OpenHeads("ASK") : loc[t].at <= Price(a)
    /\ pc[t] \in {"bid first", "bid"} =>
         \A a \in OpenHeads("ASK") : Price(loc[t].ask) <= Price(a)
    /\ pc[t] = "bid" => \A b \in OpenHeads("BID") : loc[t].at >= Price(b)

ScansRight == \A t \in Clients \ torn : ScanRight(t)

LEMMA OpenHeadFacts ==
    ASSUME TypeOK, NEW side \in Sides, NEW o \in OpenHeads(side)
    PROVE  /\ o \in book /\ o # NoOrder /\ ~orders[o].closed
           /\ Price(o) \in levels[side] /\ Price(o) \in Nat
           /\ o = Head(side, Price(o))
<1>1. o \in book /\ orders[o].terms.type = side /\ ~orders[o].closed /\ o = Head(side, Price(o))
  BY DEF OpenHeads, IsOpen
<1>2. o \in OrderIds /\ orders[o].terms \in Terms /\ Price(o) \in levels[side]
  BY <1>1 DEF TypeOK
<1> QED
  BY <1>1, <1>2, IdsAreNumbers, PricesAssumption DEF Terms, Price

\* While no order enters or leaves the book, the open heads can only get fewer.
LEMMA OpenHeadsShrink ==
    ASSUME TypeOK, book' = book,
           \A o \in book : orders'[o].terms = orders[o].terms,
           \A o \in book : orders[o].closed => orders'[o].closed,
           NEW side \in Sides
    PROVE  /\ OpenHeads(side)' \subseteq OpenHeads(side)
           /\ \A o \in OpenHeads(side) : Price(o)' = Price(o)
<1>1. \A o \in book : Price(o)' = Price(o)
  BY DEF Price
<1>2. \A price : Level(side, price)' = Level(side, price)
  BY <1>1 DEF Level
<1>3. ASSUME NEW price
      PROVE  Head(side, price)' = Head(side, price)
  <2> DEFINE First(S) == IF S = {} THEN NoOrder
                         ELSE CHOOSE o \in S : \A p \in S : o <= p
  <2>1. /\ Head(side, price) = First(Level(side, price))
        /\ Head(side, price)' = First(Level(side, price)')
    BY DEF Head
  <2>2. Level(side, price)' = Level(side, price)
    BY <1>2
  <2> HIDE DEF First
  <2> QED
    BY <2>1, <2>2
<1>4. ASSUME NEW o \in OpenHeads(side)'
      PROVE  o \in OpenHeads(side)
  <2>1. /\ o \in book /\ orders'[o].terms.type = side /\ ~orders'[o].closed
        /\ o = Head(side, Price(o))'
    BY <1>4 DEF OpenHeads, IsOpen
  <2>2. o = Head(side, Price(o))
    BY <1>1, <1>3, <2>1
  <2> QED
    BY <2>1, <2>2 DEF OpenHeads, IsOpen
<1> QED
  BY <1>1, <1>4 DEF OpenHeads

\* A turn that finds an order has found the head of the level.
LEMMA HeadFound ==
    ASSUME TypeOK, NEW t \in Clients, NEW side \in Sides, NEW turn \in Look(t, side),
           turn[1] = "found"
    PROVE  /\ turn[2] = Head(side, loc[t].at) /\ turn[2] # NoOrder
           /\ Price(turn[2]) = loc[t].at
<1>1. PICK head : head = Head(side, loc[t].at)
  OBVIOUS
<1>2. turn \in IF head # NoOrder /\ IsOpen(head) THEN {<<"found", head>>}
               ELSE IF Following(side, loc[t].at) = {} THEN {<<"end", NoOrder>>}
               ELSE IF head = NoOrder THEN {<<"crash", NoOrder>>}
               ELSE {<<"next", price>> : price \in Following(side, loc[t].at)}
  BY <1>1 DEF Look
<1>3. turn[2] = head /\ head # NoOrder
  BY <1>2
<1>4. Price(head) = loc[t].at
  BY <1>1, <1>3, HeadOfLevel DEF Level
<1> QED
  BY <1>1, <1>3, <1>4

\* A turn that finds nothing has seen that no open order heads the level.
LEMMA NothingFound ==
    ASSUME TypeOK, NEW t \in Clients, NEW side \in Sides, NEW turn \in Look(t, side),
           turn[1] # "found"
    PROVE  /\ \A o \in OpenHeads(side) : Price(o) # loc[t].at
           /\ turn[1] = "end" => Following(side, loc[t].at) = {}
           /\ turn[1] = "next" => turn[2] \in Following(side, loc[t].at)
<1> DEFINE head == Head(side, loc[t].at)
           following == Following(side, loc[t].at)
<1>1. ~(head # NoOrder /\ IsOpen(head))
  BY DEF Look
<1>2. ASSUME NEW o \in OpenHeads(side), Price(o) = loc[t].at
      PROVE  FALSE
  BY <1>1, <1>2, OpenHeadFacts DEF IsOpen
<1>3. /\ turn[1] = "end" => following = {}
      /\ turn[1] = "next" => turn[2] \in following
  <2> HIDE DEF head, following
  <2>1. turn \in IF following = {} THEN {<<"end", NoOrder>>}
                 ELSE IF head = NoOrder THEN {<<"crash", NoOrder>>}
                 ELSE {<<"next", price>> : price \in following}
    BY <1>1 DEF Look, head, following
  <2> QED
    BY <2>1
<1> QED
  BY <1>2, <1>3

\* A client whose scan is not torn, in a step that neither moves it nor changes
\* what the books hold.
LEMMA ScanKept ==
    ASSUME TypeOK, book' = book,
           \A o \in Placed : orders'[o].terms = orders[o].terms,
           \A o \in book : orders[o].closed => orders'[o].closed,
           NEW u \in Clients, pc'[u] = pc[u], loc'[u] = loc[u], ScanRight(u)
    PROVE  ScanRight(u)'
<1>1. \A o \in book : orders'[o].terms = orders[o].terms
  BY PlacedTerms
<1>2. "ASK" \in Sides /\ "BID" \in Sides
  BY DEF Sides
<1>3. /\ OpenHeads("ASK")' \subseteq OpenHeads("ASK")
      /\ OpenHeads("BID")' \subseteq OpenHeads("BID")
      /\ \A o \in OpenHeads("ASK") \cup OpenHeads("BID") : Price(o)' = Price(o)
  BY <1>1, <1>2, OpenHeadsShrink
<1>4. pc[u] \in {"bid first", "bid"} => (Price(loc[u].ask))' = Price(loc[u].ask)
  <2>1. pc[u] \in {"bid first", "bid"} => loc[u].ask \in Placed
    BY PlacedTerms DEF TypeOK, OfSide
  <2> QED
    BY <2>1 DEF Price
<1>5. pc'[u] = "ask" => \A a \in OpenHeads("ASK")' : loc'[u].at <= Price(a)'
  BY <1>3 DEF ScanRight
<1>6. pc'[u] = "bid" => \A b \in OpenHeads("BID")' : loc'[u].at >= Price(b)'
  BY <1>3 DEF ScanRight
<1>7. pc'[u] \in {"bid first", "bid"} =>
         \A a \in OpenHeads("ASK")' : (Price(loc[u].ask))' <= Price(a)'
  BY <1>3, <1>4 DEF ScanRight
<1> QED
  BY <1>5, <1>6, <1>7 DEF ScanRight

\* The heads that lie beyond a position are no nearer than the level that
\* follows it.
LEMMA FollowingHeads ==
    ASSUME TypeOK, NEW at \in Nat
    PROVE  /\ \A p \in Following("ASK", at), a \in OpenHeads("ASK") :
                at <= Price(a) /\ Price(a) # at => p <= Price(a)
           /\ \A p \in Following("BID", at), b \in OpenHeads("BID") :
                at >= Price(b) /\ Price(b) # at => p >= Price(b)
<1>1. "ASK" \in Sides /\ "BID" \in Sides
  BY DEF Sides
<1>2. \A a \in OpenHeads("ASK") : Price(a) \in Nat /\ Price(a) \in levels["ASK"]
  BY <1>1, OpenHeadFacts
<1>3. \A b \in OpenHeads("BID") : Price(b) \in Nat /\ Price(b) \in levels["BID"]
  BY <1>1, OpenHeadFacts
<1> QED
  BY <1>2, <1>3 DEF Following

\* What a client that has just moved must know of the orders as they stand.
LEMMA ScanSet ==
    ASSUME TypeOK, UNCHANGED <<orders, book>>, NEW t \in Clients,
           pc'[t] = "ask" => \A a \in OpenHeads("ASK") : loc'[t].at <= Price(a),
           pc'[t] \in {"bid first", "bid"} =>
             \E ask : loc'[t].ask = ask /\ \A a \in OpenHeads("ASK") : Price(ask) <= Price(a),
           pc'[t] = "bid" => \A b \in OpenHeads("BID") : loc'[t].at >= Price(b)
    PROVE  ScanRight(t)'
<1>1. "ASK" \in Sides /\ "BID" \in Sides
  BY DEF Sides
<1>2. /\ OpenHeads("ASK")' \subseteq OpenHeads("ASK")
      /\ OpenHeads("BID")' \subseteq OpenHeads("BID")
  BY <1>1, OpenHeadsShrink
<1>3. \A o : Price(o)' = Price(o)
  BY DEF Price
<1>4. pc'[t] = "ask" => \A a \in OpenHeads("ASK")' : loc'[t].at <= Price(a)'
  BY <1>2, <1>3
<1>5. pc'[t] = "bid" => \A b \in OpenHeads("BID")' : loc'[t].at >= Price(b)'
  BY <1>2, <1>3
<1>6. ASSUME pc'[t] \in {"bid first", "bid"}
      PROVE  \A a \in OpenHeads("ASK")' : (Price(loc[t].ask))' <= Price(a)'
  <2>1. PICK ask : loc'[t].ask = ask /\ \A a \in OpenHeads("ASK") : Price(ask) <= Price(a)
    BY <1>6
  <2>2. (Price(loc[t].ask))' = Price(ask)
    BY <2>1 DEF Price
  <2> QED
    BY <1>2, <1>3, <2>1, <2>2
<1> QED
  BY <1>4, <1>5, <1>6 DEF ScanRight

\* A quiet step mends at most the scan of its own client, one that begins or
\* that is over.
LEMMA QuietTorn ==
    ASSUME NEW t \in Clients, QuietStep(t)
    PROVE  /\ torn \ {t} \subseteq torn'
           /\ pc[t] # "begin" /\ pc'[t] \in ScanLabels => torn' = torn
<1>1. CASE torn' = torn
  BY <1>1
<1>2. CASE EndTorn(t)
  BY <1>2, EndTornFacts
<1>3. CASE pc[t] = "begin" /\ torn' = torn \ {t}
  BY <1>3
<1> QED
  BY <1>1, <1>2, <1>3
     DEF QuietStep, Begin, AskScan, BidFirst, BidScan, Match, Close, Settle, SettleFails,
         Cancel, Finds, Remove, CollectIds, RemoveEnd, SetAsset

LEMMA PositionIsNumber ==
    ASSUME TypeOK, NEW t \in Clients
    PROVE  loc[t].at \in Nat
<1>1. loc[t] \in Locals
  BY DEF TypeOK, Locals
<1>2. loc[t].at \in Prices \cup {0}
  BY <1>1 DEF Locals
<1>3. Prices \subseteq Nat /\ 0 \in Nat
  BY PricesAssumption
<1> QED
  BY <1>2, <1>3

\* The client that moves still has every better head behind it.
LEMMA ScanMoves ==
    ASSUME TypeOK, ScansRight, NEW t \in Clients, QuietStep(t), t \notin torn'
    PROVE  ScanRight(t)'
<1>1. /\ UNCHANGED <<orders, book>> /\ loc[t] \in Locals
      /\ pc \in [Clients -> Labels]
      /\ loc \in [Clients -> Locals]
  BY QuietEffect DEF TypeOK, Locals
<1>2. "ASK" \in Sides /\ "BID" \in Sides
  BY DEF Sides
<1>3. pc[t] # "begin" /\ pc'[t] \in ScanLabels => ScanRight(t) /\ t \notin torn
  BY QuietTorn DEF ScansRight
<1>4. ASSUME pc'[t] \notin ScanLabels
      PROVE  ScanRight(t)'
  BY <1>4 DEF ScanRight, ScanLabels
<1>5. SUFFICES ASSUME pc'[t] \in ScanLabels
               PROVE  ScanRight(t)'
  BY <1>4
<1>6. ASSUME pc'[t] = pc[t], loc'[t] = loc[t], pc[t] # "begin"
      PROVE  ScanRight(t)'
  <2>1. \A o \in OrderIds : orders'[o] = orders[o]
    BY <1>1
  <2> QED
    BY <1>1, <1>3, <1>6, <1>5, <2>1, ScanKept
<1>7. Return(t) => pc'[t] = "idle" /\ "idle" \notin ScanLabels
  BY <1>1 DEF Return, Goto, ScanLabels
<1>8. CASE Begin(t)
  <2>1. CASE Return(t)
    BY <1>4, <1>7, <2>1
  <2>2. CASE \E price \in levels["ASK"] :
               /\ \A other \in levels["ASK"] : price <= other
               /\ loc' = [loc EXCEPT ![t].at = price]
               /\ Goto(t, "ask")
    <3>1. PICK price \in levels["ASK"] :
            /\ \A other \in levels["ASK"] : price <= other
            /\ loc' = [loc EXCEPT ![t].at = price]
            /\ Goto(t, "ask")
      BY <2>2
    <3>2. pc'[t] = "ask" /\ loc'[t].at = price
      BY <1>1, <3>1 DEF Goto, Locals
    <3>3. \A a \in OpenHeads("ASK") : Price(a) \in levels["ASK"]
      BY <1>2, OpenHeadFacts
    <3> QED
      BY <1>1, <3>1, <3>2, <3>3, ScanSet
  <2> QED
    BY <1>8, <2>1, <2>2 DEF Begin
<1>9. CASE AskScan(t)
  <2>1. PICK turn \in Scan(t, "ASK") :
          \/ /\ turn[1] = "found"
             /\ loc' = [loc EXCEPT ![t].ask = turn[2], ![t].at = Price(turn[2])]
             /\ Goto(t, "bid first")
             /\ UNCHANGED crashed
          \/ FindsNone(t, turn)
    BY <1>9 DEF AskScan
  <2>2. pc[t] = "ask"
    BY <1>9 DEF AskScan
  <2>3. /\ turn \in Look(t, "ASK")
        /\ \A a \in OpenHeads("ASK") : loc[t].at <= Price(a)
    BY <1>3, <1>5, <2>1, <2>2 DEF Scan, ScanRight
  <2>4. CASE ~FindsNone(t, turn)
    <3> DEFINE price == Price(turn[2])
    <3>1. price = loc[t].at
      BY <1>2, <2>1, <2>3, <2>4, HeadFound
    <3>2. loc' = [loc EXCEPT ![t].ask = turn[2], ![t].at = price] /\ Goto(t, "bid first")
      BY <2>1, <2>4
    <3>3. \A a \in OpenHeads("ASK") : price <= Price(a)
      BY <2>3, <3>1
    <3>4. Price(turn[2]) = price
      OBVIOUS
    <3> HIDE DEF price
    <3>5. pc'[t] = "bid first" /\ loc'[t].ask = turn[2]
      BY <1>1, <3>2 DEF Goto, Locals
    <3> QED
      BY <1>1, <3>3, <3>4, <3>5, ScanSet
  <2>5. CASE Return(t)
    BY <1>4, <1>7, <2>5
  <2>6. CASE turn[1] = "next" /\ loc' = [loc EXCEPT ![t].at = turn[2]] /\ UNCHANGED pc
    <3>1. pc'[t] = "ask" /\ loc'[t].at = turn[2]
      BY <1>1, <2>2, <2>6 DEF Locals
    <3>2. turn[2] \in Following("ASK", loc[t].at)
      BY <1>2, <2>3, <2>6, NothingFound
    <3>3. \A a \in OpenHeads("ASK") : Price(a) # loc[t].at
      BY <1>2, <2>3, <2>6, NothingFound
    <3>4. \A a \in OpenHeads("ASK") : turn[2] <= Price(a)
      BY <2>3, <3>2, <3>3, FollowingHeads, PositionIsNumber
    <3> QED
      BY <1>1, <3>1, <3>4, ScanSet
  <2>7. CASE UNCHANGED <<pc, loc>>
    BY <1>6, <2>2, <2>7
  <2> QED
    BY <2>1, <2>4, <2>5, <2>6, <2>7 DEF FindsNone
<1>10. CASE BidFirst(t)
  <2>1. CASE Return(t)
    BY <1>4, <1>7, <2>1
  <2>2. CASE \E price \in levels["BID"] :
               /\ \A other \in levels["BID"] : price >= other
               /\ loc' = [loc EXCEPT ![t].at = price]
               /\ Goto(t, "bid")
    <3>1. PICK price \in levels["BID"] :
            /\ \A other \in levels["BID"] : price >= other
            /\ loc' = [loc EXCEPT ![t].at = price]
            /\ Goto(t, "bid")
      BY <2>2
    <3>2. pc'[t] = "bid" /\ loc'[t].at = price /\ loc'[t].ask = loc[t].ask
      BY <1>1, <3>1 DEF Goto, Locals
    <3>3. \A b \in OpenHeads("BID") : Price(b) \in levels["BID"]
      BY <1>2, OpenHeadFacts
    <3>4. \A a \in OpenHeads("ASK") : Price(loc[t].ask) <= Price(a)
      BY <1>3, <1>10, <1>5 DEF BidFirst, ScanRight
    <3> QED
      BY <1>1, <3>1, <3>2, <3>3, <3>4, ScanSet
  <2> QED
    BY <1>10, <2>1, <2>2 DEF BidFirst
<1>11. CASE BidScan(t)
  <2>1. PICK turn \in Scan(t, "BID") :
          \/ Return(t) \/ Crosses(t, turn[2])
          \/ FindsNone(t, turn)
    BY <1>11 DEF BidScan
  <2>2. pc[t] = "bid"
    BY <1>11 DEF BidScan
  <2>3. /\ turn \in Look(t, "BID")
        /\ \A a \in OpenHeads("ASK") : Price(loc[t].ask) <= Price(a)
        /\ \A b \in OpenHeads("BID") : loc[t].at >= Price(b)
    BY <1>3, <1>5, <2>1, <2>2 DEF Scan, ScanRight
  <2>4. CASE Crosses(t, turn[2])
    BY <1>1, <1>4, <2>4 DEF Crosses, Goto, ScanLabels
  <2>5. CASE Return(t)
    BY <1>4, <1>7, <2>5
  <2>6. CASE turn[1] = "next" /\ loc' = [loc EXCEPT ![t].at = turn[2]] /\ UNCHANGED pc
    <3>1. pc'[t] = "bid" /\ loc'[t].at = turn[2] /\ loc'[t].ask = loc[t].ask
      BY <1>1, <2>2, <2>6 DEF Locals
    <3>2. turn[2] \in Following("BID", loc[t].at)
      BY <1>2, <2>3, <2>6, NothingFound
    <3>3. \A b \in OpenHeads("BID") : Price(b) # loc[t].at
      BY <1>2, <2>3, <2>6, NothingFound
    <3>4. \A b \in OpenHeads("BID") : turn[2] >= Price(b)
      BY <2>3, <3>2, <3>3, FollowingHeads, PositionIsNumber
    <3> QED
      BY <1>1, <2>3, <3>1, <3>4, ScanSet
  <2>7. CASE UNCHANGED <<pc, loc>>
    BY <1>6, <2>2, <2>7
  <2> QED
    BY <2>1, <2>4, <2>5, <2>6, <2>7 DEF FindsNone
<1>12. CASE Match(t)
  BY <1>1, <1>4, <1>12 DEF Match, Goto, ScanLabels
<1>13. ASSUME NEW k \in 1..4, Settle(t, k)
       PROVE  ScanRight(t)'
  <2>1. k < 4 => k + 1 \in 1..4
    OBVIOUS
  <2>2. (\E j \in 1..4 : Goto(t, SettleLabel[j])) \/ Goto(t, "begin")
    BY <1>13, <2>1 DEF Settle
  <2>3. pc'[t] \in Matched \cup {"begin"}
    BY <1>1, <2>2, LabelFacts DEF Goto
  <2> QED
    BY <1>4, <2>3 DEF Matched, Filling, Settling, ScanLabels
<1>14. ASSUME NEW k \in 1..4, SettleFails(t, k)
       PROVE  ScanRight(t)'
  BY <1>4, <1>7, <1>14 DEF SettleFails, Throw
<1>15. ASSUME NEW reset \in BOOLEAN, CollectIds(t, reset)
       PROVE  ScanRight(t)'
  BY <1>1, <1>4, <1>15 DEF CollectIds, Goto, ScanLabels
<1>16. CASE RemoveEnd(t)
  BY <1>1, <1>4, <1>7, <1>16 DEF RemoveEnd, Goto, ScanLabels
<1>17. ASSUME NEW asset \in Assets, SetAsset(t, asset)
       PROVE  ScanRight(t)'
  BY <1>4, <1>7, <1>17 DEF SetAsset
<1>18. ASSUME NEW side \in Sides, Close(t, side)
       PROVE  ScanRight(t)'
  <2>1. pc'[t] \in Matched
    BY <1>1, <1>18, SideLabels DEF Close, Goto
  <2> QED
    BY <1>4, <2>1 DEF Matched, Filling, Settling, ScanLabels
<1>19. ASSUME NEW o \in OrderIds, Cancel(t, o) \/ Finds(t, o)
       PROVE  ScanRight(t)'
  BY <1>1, <1>4, <1>19 DEF Cancel, Finds, Remove, Goto, ScanLabels
<1> QED
  BY <1>8, <1>9, <1>10, <1>11, <1>12, <1>13, <1>14, <1>15, <1>16, <1>17, <1>18, <1>19
     DEF QuietStep

LEMMA ScansInit == Init => ScansRight
<1> SUFFICES ASSUME Init, NEW t \in Clients
             PROVE  ScanRight(t)
  BY DEF ScansRight
<1>1. pc[t] = "idle"
  BY DEF Init
<1> QED
  BY <1>1 DEF ScanRight

\* The scans of the others, in a step that leaves the books as they are.
LEMMA OtherScansKept ==
    ASSUME TypeOK, ScansRight, NEW t \in Clients, book' = book,
           \A o \in Placed : orders'[o].terms = orders[o].terms,
           \A o \in book : orders[o].closed => orders'[o].closed,
           torn \ {t} \subseteq torn',
           \A u \in Clients \ {t} : pc'[u] = pc[u] /\ loc'[u] = loc[u],
           t \notin torn' => ScanRight(t)'
    PROVE  ScansRight'
<1>1. ASSUME NEW u \in Clients \ torn'
      PROVE  ScanRight(u)'
  <2>1. CASE u = t
    BY <1>1, <2>1
  <2>2. CASE u # t
    <3>1. ScanRight(u) /\ pc'[u] = pc[u] /\ loc'[u] = loc[u]
      BY <1>1, <2>2 DEF ScansRight
    <3> QED
      BY <3>1, ScanKept
  <2> QED
    BY <2>1, <2>2
<1> QED
  BY <1>1 DEF ScansRight

\* A step that changes the books tears every scan that it did not end.
LEMMA ScansTorn ==
    ASSUME NEW t \in Clients, torn' = torn \cup (Scanning \ {t}),
           pc'[t] \notin {"ask", "bid first", "bid"},
           \A u \in Clients \ {t} : pc'[u] = pc[u]
    PROVE  ScansRight'
<1>1. ASSUME NEW u \in Clients \ torn'
      PROVE  pc'[u] \notin {"ask", "bid first", "bid"}
  BY <1>1 DEF Scanning, ScanLabels
<1> QED
  BY <1>1 DEF ScansRight, ScanRight

LEMMA ScansStep ==
    ASSUME Inv, ScansRight, Next
    PROVE  ScansRight'
<1>1. PICK t \in Clients : StepOf(t)
  BY StepCases
<1>2. /\ TypeOK /\ LifeRight /\ LockRight /\ book \subseteq OrderIds /\ Placed \subseteq OrderIds
      /\ DOMAIN pc = Clients /\ DOMAIN loc = Clients /\ DOMAIN orders = OrderIds
  BY DEF Inv, TypeOK, Placed
<1>3. ASSUME pc'[t] \notin {"ask", "bid first", "bid"}
      PROVE  ScanRight(t)'
  BY <1>3 DEF ScanRight
<1>4. ASSUME Keeps(t), book' = book, torn \ {t} \subseteq torn', t \notin torn' => ScanRight(t)'
      PROVE  ScansRight'
  <2>1. /\ \A o \in Placed : orders'[o].terms = orders[o].terms
        /\ \A o \in book : orders[o].closed => orders'[o].closed
        /\ \A u \in Clients \ {t} : pc'[u] = pc[u] /\ loc'[u] = loc[u]
    BY <1>2, <1>4 DEF Keeps
  <2> QED
    BY <1>2, <1>4, <2>1, OtherScansKept
<1>5. ASSUME NEW terms \in OrdersOf[t], Place(t, terms)
      PROVE  ScansRight'
  <2>1. PICK order : orders' = [orders EXCEPT ![Cardinality(Placed) + 1] = order]
    BY <1>5, PlaceOrders DEF Inv
  <2>2. /\ Cardinality(Placed) + 1 \notin Placed /\ book' = book /\ torn' = torn
        /\ pc' = [pc EXCEPT ![t] = "insert"]
        /\ loc' = [loc EXCEPT ![t] = [loc[t] EXCEPT !.mine = Cardinality(Placed) + 1]]
    BY <1>5, PlaceOrders DEF Inv, Place, Goto
  <2>3. \A o \in Placed : orders'[o] = orders[o]
    BY <1>2, <2>1, <2>2
  <2>4. /\ pc'[t] = "insert"
        /\ \A u \in Clients \ {t} : pc'[u] = pc[u] /\ loc'[u] = loc[u]
    BY <1>2, <2>2
  <2>5. book \subseteq Placed
    BY <1>2, PlacedTerms
  <2> QED
    BY <1>2, <1>3, <2>2, <2>3, <2>4, <2>5, OtherScansKept
<1>6. CASE Insert(t)
  BY <1>2, <1>6, ScansTorn DEF Insert, Tear, Goto
<1>7. CASE Writes(t)
  <2>1. Keeps(t) /\ book' = book /\ torn' = torn /\ pc'[t] \notin ScanLabels
    BY <1>2, <1>7, WriteKeeps
  <2> QED
    BY <1>3, <1>4, <2>1 DEF ScanLabels
<1>8. CASE Removes(t)
  <2>1. Keeps(t) /\ pc'[t] = "remove"
    BY <1>2, <1>8, RemoveOrders
  <2>2. CASE torn' = torn \cup (Scanning \ {t})
    BY <2>1, <2>2, ScansTorn DEF Keeps
  <2>3. CASE torn' = torn /\ book' = book
    BY <1>3, <1>4, <2>1, <2>3
  <2>4. PICK o : /\ book' = book \ {o}
                 /\ o \in book => torn' = torn \cup (Scanning \ {t})
                 /\ o \notin book => torn' = torn
    BY <1>2, <1>8, RemoveOrders
  <2> QED
    BY <2>2, <2>3, <2>4
<1>9. CASE QuietStep(t)
  <2>1. Keeps(t) /\ book' = book /\ torn \ {t} \subseteq torn'
    BY <1>2, <1>9, QuietKeeps, QuietEffect, QuietTorn
  <2>2. t \notin torn' => ScanRight(t)'
    BY <1>2, <1>9, ScanMoves
  <2> QED
    BY <1>4, <2>1, <2>2
<1> QED
  BY <1>1, <1>5, <1>6, <1>7, <1>8, <1>9 DEF StepOf

LEMMA ScansInvariance == Spec => []ScansRight
<1>1. Inv /\ ScansRight /\ [Next]_vars => ScansRight'
  <2> SUFFICES ASSUME Inv, ScansRight, [Next]_vars
               PROVE  ScansRight'
    OBVIOUS
  <2>1. CASE UNCHANGED vars
    <3>1. \A u \in Clients : ScanRight(u) => ScanRight(u)'
      BY <2>1, ScanKept DEF vars, Inv
    <3> QED
      BY <2>1, <3>1 DEF vars, ScansRight
  <2> QED
    BY <2>1, ScansStep
<1> QED
  BY <1>1, ScansInit, Invariance, PTL DEF Spec

\* Only the scan of the bids decides on a match, at the head of the level it is
\* at.
LEMMA MatchDecided ==
    ASSUME Inv, Next, NEW t \in Clients \ torn, pc[t] = "bid", pc'[t] = "match"
    PROVE  /\ loc'[t].ask = loc[t].ask
           /\ Price(loc'[t].bid) = loc[t].at
<1>1. PICK u \in Clients : StepOf(u)
  BY StepCases
<1>2. /\ DOMAIN pc = Clients /\ DOMAIN loc = Clients /\ loc \in [Clients -> Locals]
      /\ "BID" \in Sides /\ TypeOK /\ LifeRight /\ LockRight
      /\ \A k \in 1..4 : SettleLabel[k] # "bid"
      /\ \A side \in Sides : CloseLabel[side] # "bid"
      /\ "bid" \notin Matched
  BY LabelFacts, SideLabels DEF Inv, TypeOK, Locals, Sides, Matched, Filling, Settling
<1>3. u = t /\ QuietStep(t)
  <2>1. ASSUME u # t
        PROVE  pc'[t] = pc[t]
    <3>1. Writes(u) \/ Removes(u) \/ QuietStep(u) => pc'[t] = pc[t]
      BY <1>2, <2>1, QuietEffect, WriteKeeps, RemoveOrders DEF Keeps
    <3>2. (\E terms \in OrdersOf[u] : Place(u, terms)) \/ Insert(u) => pc'[t] = pc[t]
      BY <1>2, <2>1 DEF Place, Insert, Goto
    <3> QED
      BY <1>1, <3>1, <3>2 DEF StepOf
  <2>2. u = t
    BY <2>1
  <2>3. ~Writes(t) /\ ~Removes(t)
    BY <1>2, WriteKeeps, RemoveOrders
  <2> QED
    BY <1>1, <2>2, <2>3 DEF StepOf, Place, Insert
<1>4. BidScan(t)
  BY <1>2, <1>3 DEF QuietStep, Begin, AskScan, BidFirst, Match, Close, Settle, SettleFails,
     Cancel, Finds, Remove, CollectIds, RemoveEnd, SetAsset
<1>5. PICK turn \in Look(t, "BID") :
        \/ turn[1] = "found" /\ Crosses(t, turn[2])
        \/ Return(t)
        \/ UNCHANGED pc
  BY <1>4 DEF BidScan, Scan, FindsNone
<1>6. turn[1] = "found" /\ Crosses(t, turn[2])
  BY <1>2, <1>5 DEF Return, Goto
<1>7. loc'[t].bid = turn[2] /\ loc'[t].ask = loc[t].ask
  BY <1>2, <1>6 DEF Crosses, Locals
<1> QED
  BY <1>2, <1>6, <1>7, HeadFound

\* The best prices meet: when the engine decides on a match, after a scan no one
\* disturbed, no open order heads a better level on either side.
THEOREM BestMatched == Spec => BestHeadsMatched
<1>1. Inv /\ ScansRight /\ [Next]_vars =>
        [\A t \in Clients \ torn :
           pc[t] = "bid" /\ pc'[t] = "match" =>
             /\ \A a \in OpenHeads("ASK") : Price(loc'[t].ask) <= Price(a)
             /\ \A b \in OpenHeads("BID") : Price(loc'[t].bid) >= Price(b)]_vars
  <2> SUFFICES ASSUME Inv, ScansRight, Next, NEW t \in Clients \ torn,
                      pc[t] = "bid", pc'[t] = "match"
               PROVE  /\ \A a \in OpenHeads("ASK") : Price(loc'[t].ask) <= Price(a)
                      /\ \A b \in OpenHeads("BID") : Price(loc'[t].bid) >= Price(b)
    OBVIOUS
  <2>1. loc'[t].ask = loc[t].ask /\ Price(loc'[t].bid) = loc[t].at
    BY MatchDecided
  <2>2. /\ \A a \in OpenHeads("ASK") : Price(loc[t].ask) <= Price(a)
        /\ \A b \in OpenHeads("BID") : loc[t].at >= Price(b)
    BY DEF ScansRight, ScanRight
  <2> QED
    BY <2>1, <2>2
<1> QED
  BY <1>1, Invariance, ScansInvariance, PTL DEF Spec, BestHeadsMatched

-----------------------------------------------------------------------------
(* Who sees to a crossing.                                                 *)

\* When no level follows, none lies beyond.
LEMMA NothingBeyond ==
    ASSUME TypeOK, NEW at \in Nat
    PROVE  /\ Following("ASK", at) = {} => \A p \in levels["ASK"] : p <= at
           /\ Following("BID", at) = {} => \A p \in levels["BID"] : p >= at
<1>1. levels["ASK"] \subseteq Nat /\ levels["BID"] \subseteq Nat
  BY PricesAssumption DEF TypeOK, Sides
<1>2. ASSUME NEW p \in levels["ASK"], p > at
      PROVE  Following("ASK", at) # {}
  <2> DEFINE S == {q \in levels["ASK"] : q > at}
  <2>1. S \in SUBSET Nat /\ S # {}
    BY <1>1, <1>2
  <2>2. PICK q \in S : \A r \in S : q <= r
    BY <2>1, LeastExists
  <2>3. q \in Following("ASK", at)
    BY <1>1, <2>2 DEF Following
  <2> QED
    BY <2>3
<1>3. ASSUME NEW p \in levels["BID"], p < at
      PROVE  Following("BID", at) # {}
  <2> DEFINE S == {n \in Nat : at - n \in levels["BID"] /\ at - n < at}
  <2>1. p \in Nat /\ at - (at - p) = p /\ at - p \in Nat
    BY <1>1, <1>3
  <2>2. S \in SUBSET Nat /\ at - p \in S
    BY <1>3, <2>1
  <2>3. PICK n \in S : \A r \in S : n <= r
    BY <2>2, LeastExists
  <2>4. ASSUME NEW r \in levels["BID"], r < at
        PROVE  at - n >= r
    <3>1. r \in Nat /\ at - (at - r) = r /\ at - r \in Nat
      BY <1>1, <2>4
    <3>2. at - r \in S
      BY <2>4, <3>1
    <3>3. n <= at - r /\ n \in Nat
      BY <2>3, <3>2
    <3> QED
      BY <3>1, <3>3
  <2>5. at - n \in levels["BID"] /\ at - n < at
    BY <2>3
  <2>6. at - n \in Following("BID", at)
    BY <2>4, <2>5 DEF Following
  <2> QED
    BY <2>6
<1> QED
  BY <1>1, <1>2, <1>3

\* A client that will resolve the book again, or that is at a match, or whose
\* scan is good.
Watches(t) == pc[t] = "begin" \/ pc[t] \in Matched \/ t \in Scanning \ torn

NoneCross == \A a \in OpenHeads("ASK"), b \in OpenHeads("BID") : Price(a) > Price(b)

\* As long as no call has failed and nothing was removed, a crossing that is
\* left in the books is one that some client is still about to see to.
CrossingWatched ==
    ~thrown /\ ~crashed /\ Known \subseteq book =>
      NoneCross \/ \E t \in Clients : Watches(t)

LEMMA CrossingInit == Init => CrossingWatched
<1> SUFFICES ASSUME Init
             PROVE  NoneCross
  BY DEF CrossingWatched
<1>1. book = {}
  BY DEF Init
<1> QED
  BY <1>1 DEF NoneCross, OpenHeads

LEMMA NoneCrossKept ==
    ASSUME TypeOK, NoneCross, book' = book,
           \A o \in Placed : orders'[o].terms = orders[o].terms,
           \A o \in book : orders[o].closed => orders'[o].closed
    PROVE  NoneCross'
<1>1. \A o \in book : orders'[o].terms = orders[o].terms
  BY PlacedTerms
<1>2. "ASK" \in Sides /\ "BID" \in Sides
  BY DEF Sides
<1>3. /\ OpenHeads("ASK")' \subseteq OpenHeads("ASK")
      /\ OpenHeads("BID")' \subseteq OpenHeads("BID")
      /\ \A o \in OpenHeads("ASK") \cup OpenHeads("BID") : Price(o)' = Price(o)
  BY <1>1, <1>2, OpenHeadsShrink
<1> QED
  BY <1>3 DEF NoneCross

\* A client that watched either still does, or has found that none cross.
LEMMA WatchMoves ==
    ASSUME TypeOK, ScansRight, NEW t \in Clients, QuietStep(t), Watches(t),
           thrown' = FALSE, crashed' = FALSE
    PROVE  Watches(t)' \/ NoneCross
<1>1. /\ loc[t] \in Locals /\ t \in Clients
      /\ pc \in [Clients -> Labels]
      /\ loc \in [Clients -> Locals]
      /\ loc[t].at \in Nat
  BY PositionIsNumber DEF TypeOK, Locals
<1>2. "ASK" \in Sides /\ "BID" \in Sides
  BY DEF Sides
<1>3. pc[t] \in {"ask", "bid first", "bid"} => ScanRight(t) /\ t \notin torn
  BY DEF Watches, Scanning, ScansRight, ScanLabels, Matched, Filling, Settling
<1>4. ASSUME pc'[t] \in {"begin"} \cup Matched \cup {"ask", "bid first", "bid"}, t \notin torn'
      PROVE  Watches(t)'
  BY <1>4 DEF Watches, Scanning, ScanLabels
<1>5. ASSUME pc'[t] \in {"begin"} \cup Matched
      PROVE  Watches(t)'
  BY <1>5 DEF Watches
<1>6. /\ \A a \in OpenHeads("ASK") : Price(a) \in levels["ASK"] /\ Price(a) \in Nat
      /\ \A b \in OpenHeads("BID") : Price(b) \in levels["BID"] /\ Price(b) \in Nat
  BY <1>2, OpenHeadFacts
<1>7. CASE Begin(t)
  <2>1. CASE levels["ASK"] = {}
    BY <1>6, <2>1 DEF NoneCross
  <2>2. CASE levels["ASK"] # {}
    <3>1. PICK price \in levels["ASK"] : \A other \in levels["ASK"] : price <= other
      BY <1>2, <2>2, LeastExists, PricesAssumption DEF TypeOK
    <3>2. (levels["ASK"] = {} /\ Return(t)) \/ Goto(t, "ask")
      BY <1>7 DEF Begin
    <3>3. pc'[t] = "ask" /\ t \notin torn'
      BY <1>1, <1>7, <2>2, <3>2 DEF Begin, Goto
    <3> QED
      BY <1>4, <3>3
  <2> QED
    BY <2>1, <2>2
<1>8. CASE AskScan(t)
  <2>1. PICK turn \in Scan(t, "ASK") :
          \/ /\ turn[1] = "found"
             /\ Goto(t, "bid first")
          \/ FindsNone(t, turn)
    BY <1>8 DEF AskScan
  <2>2. pc[t] = "ask" /\ torn' \subseteq torn
    BY EndTornFacts, <1>8 DEF AskScan
  <2>3. /\ turn \in Look(t, "ASK") /\ t \notin torn
        /\ \A a \in OpenHeads("ASK") : loc[t].at <= Price(a)
    BY <1>3, <2>1, <2>2 DEF Scan, ScanRight
  <2>4. CASE Goto(t, "bid first")
    BY <1>1, <1>4, <2>2, <2>3, <2>4 DEF Goto
  <2>5. CASE turn[1] = "end"
    <3>1. /\ \A a \in OpenHeads("ASK") : Price(a) # loc[t].at
          /\ Following("ASK", loc[t].at) = {}
      BY <1>2, <2>3, <2>5, NothingFound
    <3>2. \A p \in levels["ASK"] : p <= loc[t].at
      BY <1>1, <3>1, NothingBeyond
    <3>3. ASSUME NEW a \in OpenHeads("ASK")
          PROVE  FALSE
      <4>1. PICK at \in Nat, p \in Nat : at = loc[t].at /\ p = Price(a)
        BY <1>1, <1>6
      <4>2. at <= p /\ p <= at /\ p # at
        BY <1>6, <2>3, <3>1, <3>2, <4>1
      <4> QED
        BY <4>2
    <3> QED
      BY <3>3 DEF NoneCross
  <2>6. CASE UNCHANGED pc
    BY <1>4, <2>2, <2>3, <2>6
  <2> QED
    BY <2>1, <2>4, <2>5, <2>6 DEF FindsNone
<1>9. CASE BidFirst(t)
  <2>1. CASE levels["BID"] = {}
    BY <1>6, <2>1 DEF NoneCross
  <2>2. CASE Goto(t, "bid")
    BY <1>1, <1>3, <1>4, <1>9, <2>2, EndTornFacts DEF BidFirst, Goto
  <2> QED
    BY <1>9, <2>1, <2>2 DEF BidFirst
<1>10. CASE BidScan(t)
  <2>1. PICK turn \in Scan(t, "BID") :
          \/ /\ turn[1] = "found"
             /\ IF Price(loc[t].ask) > Price(turn[2]) THEN Return(t)
                ELSE Crosses(t, turn[2])
          \/ FindsNone(t, turn)
    BY <1>10 DEF BidScan
  <2>2. pc[t] = "bid" /\ torn' \subseteq torn
    BY EndTornFacts, <1>10 DEF BidScan
  <2>3. /\ turn \in Look(t, "BID") /\ t \notin torn
        /\ \A a \in OpenHeads("ASK") : Price(loc[t].ask) <= Price(a)
        /\ \A b \in OpenHeads("BID") : loc[t].at >= Price(b)
    BY <1>3, <2>1, <2>2 DEF Scan, ScanRight
  <2>4. CASE Crosses(t, turn[2])
    BY <1>1, <1>5, <2>4 DEF Crosses, Goto, Matched, Filling, Settling
  <2>5. CASE turn[1] = "found" /\ Price(loc[t].ask) > Price(turn[2])
    <3>1. Price(turn[2]) = loc[t].at
      BY <1>2, <2>3, <2>5, HeadFound
    <3>2. Price(loc[t].ask) \in Nat
      <4>1. OfSide(loc[t].ask, "ASK")
        BY <2>2 DEF TypeOK
      <4> QED
        BY <4>1, PricesAssumption DEF OfSide, Price, Terms
    <3>3. \A a \in OpenHeads("ASK"), b \in OpenHeads("BID") : Price(a) > Price(b)
      <4> SUFFICES ASSUME NEW a \in OpenHeads("ASK"), NEW b \in OpenHeads("BID")
                   PROVE  Price(a) > Price(b)
        OBVIOUS
      <4>1. PICK ask \in Nat, at \in Nat, p \in Nat, q \in Nat :
              ask = Price(loc[t].ask) /\ at = loc[t].at /\ p = Price(a) /\ q = Price(b)
        BY <1>1, <1>6, <3>2
      <4>2. ask > at /\ ask <= p /\ at >= q
        BY <2>3, <2>5, <3>1, <4>1
      <4>3. p > q
        BY <4>2
      <4> QED
        BY <4>1, <4>3
    <3> QED
      BY <3>3 DEF NoneCross
  <2>6. CASE turn[1] = "end"
    <3>1. /\ \A b \in OpenHeads("BID") : Price(b) # loc[t].at
          /\ Following("BID", loc[t].at) = {}
      BY <1>2, <2>3, <2>6, NothingFound
    <3>2. \A p \in levels["BID"] : p >= loc[t].at
      BY <1>1, <3>1, NothingBeyond
    <3>3. ASSUME NEW b \in OpenHeads("BID")
          PROVE  FALSE
      <4>1. PICK at \in Nat, p \in Nat : at = loc[t].at /\ p = Price(b)
        BY <1>1, <1>6
      <4>2. at <= p /\ p <= at /\ p # at
        BY <1>6, <2>3, <3>1, <3>2, <4>1
      <4> QED
        BY <4>2
    <3> QED
      BY <3>3 DEF NoneCross
  <2>7. CASE UNCHANGED pc
    BY <1>4, <2>2, <2>3, <2>7
  <2> QED
    BY <2>1, <2>4, <2>5, <2>6, <2>7 DEF FindsNone
<1>11. CASE Match(t)
  BY <1>1, <1>5, <1>11 DEF Match, Goto, Matched, Filling, Settling
<1>12. ASSUME NEW k \in 1..4, Settle(t, k)
       PROVE  Watches(t)'
  <2>1. k < 4 => k + 1 \in 1..4
    OBVIOUS
  <2>2. (\E j \in 1..4 : Goto(t, SettleLabel[j])) \/ Goto(t, "begin")
    BY <1>12, <2>1 DEF Settle
  <2>3. pc'[t] \in {"begin"} \cup Matched
    BY <1>1, <2>2, LabelFacts DEF Goto
  <2> QED
    BY <1>5, <2>3
<1>13. ASSUME NEW k \in 1..4, SettleFails(t, k)
       PROVE  FALSE
  BY <1>13 DEF SettleFails, Throw
<1>14. ASSUME NEW side \in Sides, Close(t, side)
       PROVE  Watches(t)'
  <2>1. pc'[t] \in Matched
    BY <1>1, <1>14, SideLabels DEF Close, Goto
  <2> QED
    BY <1>5, <2>1
<1>15. pc[t] \notin {"idle", "remove", "set asset"}
  BY DEF Watches, Scanning, ScanLabels, Matched, Filling, Settling
<1> QED
  BY <1>7, <1>8, <1>9, <1>10, <1>11, <1>12, <1>13, <1>14, <1>15
     DEF QuietStep, Cancel, Finds, Remove, CollectIds, RemoveEnd, SetAsset

\* In a step that leaves the books as they are, the others go on watching.
LEMMA CrossingKept ==
    ASSUME TypeOK, CrossingWatched, NEW t \in Clients, book' = book, Known' = Known,
           ~crashed, ~thrown, ~thrown', Known' \subseteq book',
           \A o \in Placed : orders'[o].terms = orders[o].terms,
           \A o \in book : orders[o].closed => orders'[o].closed,
           torn' \subseteq torn,
           \A u \in Clients \ {t} : pc'[u] = pc[u],
           Watches(t) => Watches(t)' \/ NoneCross
    PROVE  NoneCross' \/ \E u \in Clients : Watches(u)'
<1>1. NoneCross \/ \E u \in Clients : Watches(u)
  BY DEF CrossingWatched
<1>2. CASE NoneCross
  BY <1>2, NoneCrossKept
<1>3. CASE Watches(t)
  BY <1>3, NoneCrossKept
<1>4. ASSUME NEW u \in Clients \ {t}, Watches(u)
      PROVE  Watches(u)'
  BY <1>4 DEF Watches, Scanning
<1> QED
  BY <1>1, <1>2, <1>3, <1>4

LEMMA CrossingStep ==
    ASSUME Inv, Inv', ScansRight, CrossingWatched, Next
    PROVE  CrossingWatched'
<1> SUFFICES ASSUME ~thrown', ~crashed', Known' \subseteq book'
             PROVE  NoneCross' \/ \E u \in Clients : Watches(u)'
  BY DEF CrossingWatched
<1>1. ~crashed
  BY StepCases
<1>2. PICK t \in Clients : StepOf(t)
  BY StepCases
<1>3. /\ TypeOK /\ LifeRight /\ LockRight /\ book \subseteq OrderIds /\ Placed \subseteq OrderIds
      /\ DOMAIN pc = Clients /\ DOMAIN orders = OrderIds
      /\ thrown \in BOOLEAN /\ thrown' \in BOOLEAN /\ crashed' \in BOOLEAN
  BY DEF Inv, TypeOK, Placed
<1>4. ~thrown
  <2>1. Writes(t) \/ Removes(t) => thrown' = thrown
    BY <1>3, WriteKeeps, RemoveOrders
  <2>2. QuietStep(t) => thrown' = thrown \/ thrown' = TRUE
    BY DEF QuietStep, Begin, AskScan, BidFirst, BidScan, Match, Close, Settle, SettleFails,
       Throw, Cancel, Finds, Remove, CollectIds, RemoveEnd, SetAsset
  <2> QED
    BY <1>2, <1>3, <2>1, <2>2 DEF StepOf, Place, Insert
<1>5. ASSUME Keeps(t), book' = book, torn' \subseteq torn,
             Watches(t) => Watches(t)' \/ NoneCross
      PROVE  NoneCross' \/ \E u \in Clients : Watches(u)'
  <2>1. /\ \A o \in Placed : orders'[o].terms = orders[o].terms
        /\ \A o \in book : orders[o].closed => orders'[o].closed
        /\ \A u \in Clients \ {t} : pc'[u] = pc[u]
    BY <1>3, <1>5 DEF Keeps
  <2>2. Known' = Known
    BY <1>3, <1>5, LifeKept
  <2> QED
    BY <1>1, <1>3, <1>4, <1>5, <2>1, <2>2, CrossingKept
<1>6. pc[t] \in {"idle", "insert", "cancel"} => ~Watches(t)
  BY DEF Watches, Matched, Filling, Settling, Scanning, ScanLabels
<1>7. ASSUME NEW terms \in OrdersOf[t], Place(t, terms)
      PROVE  NoneCross' \/ \E u \in Clients : Watches(u)'
  <2>1. PICK order : orders' = [orders EXCEPT ![Cardinality(Placed) + 1] = order]
    BY <1>7, PlaceOrders DEF Inv
  <2>2. /\ Cardinality(Placed) + 1 \notin Placed /\ book' = book /\ torn' = torn
        /\ pc' = [pc EXCEPT ![t] = "insert"] /\ pc[t] = "idle" /\ Known' = Known
    BY <1>7, PlaceOrders, PlaceLife DEF Inv, Place, Goto
  <2>3. \A o \in Placed : orders'[o] = orders[o]
    BY <1>3, <2>1, <2>2
  <2>4. \A u \in Clients \ {t} : pc'[u] = pc[u]
    BY <1>3, <2>2
  <2>5. book \subseteq Placed
    BY <1>3, PlacedTerms
  <2> QED
    BY <1>1, <1>3, <1>4, <1>6, <2>2, <2>3, <2>4, <2>5, CrossingKept
<1>8. CASE Insert(t)
  <2>1. pc'[t] = "begin"
    BY <1>3, <1>8 DEF Insert, Goto
  <2>2. Watches(t)'
    BY <2>1 DEF Watches
  <2> QED
    BY <2>2
<1>9. CASE Writes(t)
  <2>1. Keeps(t) /\ book' = book /\ torn' = torn
    BY <1>3, <1>9, WriteKeeps
  <2>2. CASE pc[t] = "cancel"
    BY <1>5, <1>6, <2>1, <2>2
  <2>3. CASE pc[t] # "cancel"
    <3>1. pc'[t] \in Matched
      BY <1>3, <1>9, <2>3, WriteKeeps
    <3>2. Watches(t)'
      BY <3>1 DEF Watches
    <3> QED
      BY <3>2
  <2> QED
    BY <2>2, <2>3
<1>10. CASE Removes(t)
  <2>1. PICK o \in Known : book' = book \ {o}
    BY <1>3, <1>10, RemoveOrders
  <2>2. Known' = Known
    BY <1>3, <1>10, RemoveOrders, LifeKept
  <2> QED
    BY <2>1, <2>2
<1>11. CASE QuietStep(t)
  <2>1. Keeps(t) /\ book' = book /\ torn' \subseteq torn
    BY <1>3, <1>11, QuietKeeps, QuietEffect
  <2>2. thrown' = FALSE /\ crashed' = FALSE
    BY <1>3
  <2>3. Watches(t) => Watches(t)' \/ NoneCross
    BY <1>3, <1>11, <2>2, WatchMoves
  <2> QED
    BY <1>5, <2>1, <2>3
<1> QED
  BY <1>2, <1>7, <1>8, <1>9, <1>10, <1>11 DEF StepOf

LEMMA CrossingStutters ==
    ASSUME CrossingWatched, UNCHANGED vars
    PROVE  CrossingWatched'
<1>1. /\ Known' = Known /\ Scanning' = Scanning
      /\ OpenHeads("ASK")' = OpenHeads("ASK") /\ OpenHeads("BID")' = OpenHeads("BID")
  BY DEF vars, Known, Placed, Scanning, OpenHeads, Head, Level, Price, IsOpen
<1>2. NoneCross => NoneCross'
  BY <1>1 DEF vars, NoneCross, Price
<1>3. \A t \in Clients : Watches(t) => Watches(t)'
  BY <1>1 DEF vars, Watches
<1> QED
  BY <1>1, <1>2, <1>3 DEF vars, CrossingWatched

\* No match is left behind: when every call has returned, none has failed and
\* nothing was removed, the best ask is dearer than the best bid, whatever the
\* clients, their orders and the order in which their steps came.
THEOREM NoCrossing == Spec => []HeadsDoNotCross
<1>1. Inv /\ Inv' /\ ScansRight /\ CrossingWatched /\ [Next]_vars => CrossingWatched'
  BY CrossingStep, CrossingStutters
<1>2. Inv /\ CrossingWatched => HeadsDoNotCross
  <2> SUFFICES ASSUME Inv, CrossingWatched, AtRest, NothingRemoved, ~thrown
               PROVE  NoneCross
    BY DEF HeadsDoNotCross, NoneCross
  <2>1. Known \subseteq book /\ ~crashed
    BY DEF Known, NothingRemoved, AtRest
  <2>2. \A t \in Clients : ~Watches(t)
    BY DEF AtRest, Watches, Matched, Filling, Settling, Scanning, ScanLabels
  <2> QED
    BY <2>1, <2>2 DEF CrossingWatched
<1> QED
  BY <1>1, <1>2, CrossingInit, Invariance, ScansInvariance, PTL DEF Spec

-----------------------------------------------------------------------------
(* The legs of a trade.                                                    *)

\* A bid always holds all of its volume, so no trade asks for any more of it.
BidsWhole ==
    /\ \A o \in Placed : orders[o].terms.type = "BID" =>
                           orders[o].available = orders[o].terms.volume
    /\ \A t \in Clients : pc[t] \in Matched \ {"match"} =>
         loc[t].dv = 0 /\ loc[t].newBid = orders[loc[t].bid].terms.volume

\* The trades of a bid that have posted their first transaction but not yet
\* their k-th.
Past(k) == {SettleLabel[j] : j \in 2..k}
Within(b, k) == {t \in Clients : loc[t].bid = b /\ pc[t] \in Past(k)}

\* The account of a bid exists, and so do those of the other orders, none of
\* which is placed for the same account.
Sound(b) ==
    /\ Account(b) \in Opened
    /\ \A a \in Placed \ {b} : Account(a) # Account(b) /\ Account(a) \in Opened

\* Every first transaction of such a bid has its k-th, or is on its way to it.
LegsCounted ==
    /\ \A b \in OrderIds \ Placed, k \in 1..4 : posted[k][b] = 0
    /\ \A b \in Placed : Sound(b) =>
         \A k \in 1..4 : posted[1][b] = posted[k][b] + Cardinality(Within(b, k))

\* Where a quiet step can leave a client in the middle of a match.
LEMMA QuietMatched ==
    ASSUME TypeOK, NEW t \in Clients, QuietStep(t), pc'[t] \in Matched \ {"match"}
    PROVE  Match(t) \/ (pc[t] \in Matched \ {"match"} /\ loc'[t] = loc[t])
<1>1. DOMAIN pc = Clients /\ DOMAIN loc = Clients
  BY DEF TypeOK
<1>2. /\ ~Return(t) /\ ~Goto(t, "cancel") /\ ~Goto(t, "removing") /\ ~Goto(t, "ask") /\ ~Goto(t, "bid first") /\ ~Goto(t, "bid")
      /\ ~Goto(t, "match") /\ ~Goto(t, "begin") /\ ~Goto(t, "remove") /\ ~Goto(t, "set asset")
  BY <1>1 DEF Return, Goto, Matched, Filling, Settling
<1>3. ~Begin(t) /\ ~BidFirst(t) /\ ~RemoveEnd(t)
  BY <1>2 DEF Begin, BidFirst, RemoveEnd
<1>4. ~AskScan(t) /\ ~BidScan(t)
  BY <1>2 DEF AskScan, BidScan, FindsNone, Crosses, Matched, Filling, Settling
<1>5. ASSUME NEW k \in 1..4, Settle(t, k)
      PROVE  pc[t] \in Matched \ {"match"} /\ loc'[t] = loc[t]
  <2>1. k < 4 /\ Goto(t, SettleLabel[k + 1]) /\ loc' = loc
    BY <1>2, <1>5 DEF Settle
  <2>2. PICK i \in 1..4 : i = k + 1
    BY <2>1
  <2>3. ASSUME NEW j \in 1..4
        PROVE  SettleLabel[j] \in Matched \ {"match"}
    <3>1. j = 1 \/ j = 2 \/ j = 3 \/ j = 4
      OBVIOUS
    <3> QED
      BY <3>1, LabelFacts DEF Matched, Filling, Settling
  <2>4. /\ pc[t] = SettleLabel[k] /\ pc'[t] = SettleLabel[i] /\ loc'[t] = loc[t]
    BY <1>1, <1>5, <2>1, <2>2 DEF Settle, Goto
  <2> QED
    BY <2>3, <2>4
<1>6. ASSUME NEW k \in 1..4, SettleFails(t, k)
      PROVE  FALSE
  BY <1>2, <1>6 DEF SettleFails, Throw
<1>7. ASSUME NEW side \in Sides, Close(t, side)
      PROVE  pc[t] \in Matched \ {"match"} /\ loc'[t] = loc[t]
  BY <1>7, SideLabels DEF Close
<1> QED
  BY <1>2, <1>3, <1>4, <1>5, <1>6, <1>7
     DEF QuietStep, Cancel, Finds, Remove, CollectIds, SetAsset

LEMMA BidsInit == Init => BidsWhole
<1> SUFFICES ASSUME Init
             PROVE  BidsWhole
  OBVIOUS
<1>1. Placed = {} /\ \A t \in Clients : pc[t] = "idle"
  BY DEF Init, Placed
<1> QED
  BY <1>1 DEF BidsWhole, Matched, Filling, Settling

\* What a step must keep for the bids to stay whole.
LEMMA BidsKept ==
    ASSUME TypeOK, BidsWhole, NEW t \in Clients,
           \A o \in Placed : orders'[o].terms = orders[o].terms,
           \A o \in Placed' : orders'[o].terms.type = "BID" =>
             \/ o \in Placed /\ orders'[o].available = orders[o].available
             \/ orders'[o].available = orders'[o].terms.volume,
           \A u \in Clients \ {t} : pc'[u] = pc[u] /\ loc'[u] = loc[u],
           pc'[t] \in Matched \ {"match"} =>
             /\ loc'[t].dv = 0
             /\ \E b \in Placed : loc'[t].bid = b /\ loc'[t].newBid = orders[b].terms.volume
    PROVE  BidsWhole'
<1>1. \A o \in Placed' : orders'[o].terms.type = "BID" =>
                           orders'[o].available = orders'[o].terms.volume
  BY DEF BidsWhole
<1>2. ASSUME NEW u \in Clients, pc'[u] \in Matched \ {"match"}
      PROVE  loc'[u].dv = 0 /\ loc'[u].newBid = orders'[loc'[u].bid].terms.volume
  <2>1. CASE u = t
    BY <1>2, <2>1
  <2>2. CASE u # t
    <3>1. /\ pc[u] \in Matched \ {"match"} /\ loc'[u] = loc[u] /\ loc[u].dv = 0
          /\ loc[u].newBid = orders[loc[u].bid].terms.volume
      BY <1>2, <2>2 DEF BidsWhole
    <3>2. loc[u].bid \in Placed
      BY <3>1, PlacedTerms DEF TypeOK, OfSide
    <3> QED
      BY <3>1, <3>2
  <2> QED
    BY <2>1, <2>2
<1> QED
  BY <1>1, <1>2 DEF BidsWhole

LEMMA BidsStep ==
    ASSUME Inv, BidsWhole, Next
    PROVE  BidsWhole'
<1>1. PICK t \in Clients : StepOf(t)
  BY StepCases
<1>2. /\ TypeOK /\ LifeRight /\ LockRight /\ Placed \subseteq OrderIds
      /\ DOMAIN pc = Clients /\ loc \in [Clients -> Locals] /\ DOMAIN orders = OrderIds
  BY DEF Inv, TypeOK, Placed, Locals
<1>3. ASSUME Keeps(t),
             \A o \in Placed : orders'[o].terms.type = "BID" =>
               \/ orders'[o].available = orders[o].available
               \/ orders'[o].available = orders'[o].terms.volume,
             pc'[t] \in Matched \ {"match"} =>
               /\ loc'[t].dv = 0
               /\ \E b \in Placed : loc'[t].bid = b /\ loc'[t].newBid = orders[b].terms.volume
      PROVE  BidsWhole'
  <2>1. /\ \A o \in Placed : orders'[o].terms = orders[o].terms
        /\ \A u \in Clients \ {t} : pc'[u] = pc[u] /\ loc'[u] = loc[u]
    BY <1>2, <1>3 DEF Keeps
  <2>2. Placed' = Placed
    BY <1>2, <1>3, LifeKept
  <2> QED
    BY <1>2, <1>3, <2>1, <2>2, BidsKept
<1>4. ASSUME NEW terms \in OrdersOf[t], Place(t, terms)
      PROVE  BidsWhole'
  <2> DEFINE new == [terms |-> terms, available |-> terms.volume, closed |-> FALSE]
  <2>1. new.available = new.terms.volume
    OBVIOUS
  <2>2. PICK o : o = Cardinality(Placed) + 1
    OBVIOUS
  <2>3. /\ o \in OrderIds \ Placed /\ Placed' = Placed \cup {o}
        /\ orders' = [orders EXCEPT ![o] = new]
    BY <1>4, <2>2, PlaceOrders DEF Inv
  <2> HIDE DEF new
  <2>4. /\ orders'[o] = new /\ \A p \in Placed : orders'[p] = orders[p]
    BY <1>2, <2>3
  <2>5. /\ pc' = [pc EXCEPT ![t] = "insert"]
        /\ loc' = [loc EXCEPT ![t] = [loc[t] EXCEPT !.mine = o]]
    BY <1>4, <2>2 DEF Place, Goto
  <2>6. /\ pc'[t] = "insert"
        /\ \A u \in Clients \ {t} : pc'[u] = pc[u] /\ loc'[u] = loc[u]
    BY <1>2, <2>5
  <2> QED
    BY <1>2, <2>1, <2>3, <2>4, <2>6, BidsKept DEF Matched, Filling, Settling
<1>5. CASE Insert(t)
  <2>1. /\ pc'[t] = "begin" /\ orders' = orders
        /\ \A u \in Clients \ {t} : pc'[u] = pc[u] /\ loc'[u] = loc[u]
    BY <1>2, <1>5 DEF Insert, Goto
  <2>2. Placed' = Placed
    BY <2>1 DEF Placed
  <2> QED
    BY <1>2, <2>1, <2>2, BidsKept DEF Matched, Filling, Settling
<1>6. CASE Writes(t)
  <2>1. PICK o \in Known, written \in Order, label \in Labels, locals \in Locals :
          Write(t, o, written, label, locals)
    BY <1>2, <1>6, WriteFacts
  <2>2. Keeps(t) /\ (pc[t] = "cancel" => pc'[t] = "idle")
        /\ (pc[t] # "cancel" => pc[t] \in Matched \ {"match"} /\ loc'[t] = loc[t])
    BY <1>2, <1>6, WriteKeeps
  <2>3. /\ orders'[o] = written /\ \A p \in OrderIds \ {o} : orders'[p] = orders[p]
        /\ o \in OrderIds
    BY <1>2, <2>1, WriteOrders DEF Write, Known
  <2>4. orders[o].terms.type = "BID" =>
          written.available \in {orders[o].available, orders[o].terms.volume}
    <3>1. CASE pc[t] \in Filling /\ o = loc[t].bid /\ written.available = loc[t].newBid
      <4>1. pc[t] \in Matched \ {"match"}
        BY <3>1 DEF Matched, Filling
      <4>2. loc[t].newBid = orders[loc[t].bid].terms.volume
        BY <4>1 DEF BidsWhole
      <4> QED
        BY <3>1, <4>2
    <3>2. CASE \/ written.available = orders[o].available
               \/ orders[o].terms.type = "ASK"
               \/ written.available = orders[o].terms.volume
      BY <3>2
    <3> QED
      BY <2>1, <3>1, <3>2 DEF Write
  <2>5. written.terms = orders[o].terms
    BY <2>1 DEF Write
  <2>6. \A p \in Placed : orders'[p].terms.type = "BID" =>
               \/ orders'[p].available = orders[p].available
               \/ orders'[p].available = orders'[p].terms.volume
    BY <1>2, <2>3, <2>4, <2>5
  <2>7. ASSUME pc'[t] \in Matched \ {"match"}
        PROVE  /\ loc'[t].dv = 0
               /\ \E b \in Placed : loc'[t].bid = b /\ loc'[t].newBid = orders[b].terms.volume
    <3>1. pc[t] \in Matched \ {"match"} /\ loc'[t] = loc[t]
      BY <2>2, <2>7 DEF Matched, Filling, Settling
    <3>2. loc[t].dv = 0 /\ loc[t].newBid = orders[loc[t].bid].terms.volume
      BY <3>1 DEF BidsWhole
    <3>3. loc[t].bid \in Placed
      BY <1>2, <3>1, PlacedTerms DEF TypeOK, OfSide
    <3> QED
      BY <3>1, <3>2, <3>3
  <2> QED
    BY <1>3, <2>2, <2>6, <2>7
<1>7. CASE Removes(t)
  <2>1. pc'[t] = "remove"
    BY <1>2, <1>7, RemoveOrders
  <2> QED
    BY <1>2, <1>3, <1>7, <2>1, RemoveOrders DEF Matched, Filling, Settling
<1>8. CASE QuietStep(t)
  <2>1. Keeps(t) /\ orders' = orders
    BY <1>2, <1>8, QuietKeeps, QuietEffect
  <2>2. CASE Match(t)
    <3>1. PICK a, b : a = loc[t].ask /\ b = loc[t].bid
      OBVIOUS
    <3>2. a \in Placed /\ b \in Placed /\ orders[b].terms.type = "BID"
      BY <1>2, <2>2, <3>1, PlacedTerms DEF Match, TypeOK, OfSide, Matched, Filling, Settling
    <3>3. PICK v \in Nat, w \in Nat :
            /\ v = orders[b].terms.volume /\ orders[b].available = v
            /\ w = orders[a].available
      <4>1. orders[b].available \in Nat /\ orders[a].available \in Nat
        BY <1>2, <3>2, PlacedTerms
      <4> QED
        BY <3>2, <4>1 DEF BidsWhole
    <3>4. NewBid(a, b) = v
      BY <3>3 DEF NewBid, Least
    <3>5. PICK dv, left : /\ dv = v - v
                          /\ loc' = [loc EXCEPT ![t].dv = dv, ![t].newBid = v, ![t].newAsk = left]
      BY <2>2, <3>1, <3>3, <3>4 DEF Match
    <3>6. /\ loc'[t].dv = dv /\ loc'[t].newBid = v /\ loc'[t].bid = b
      BY <1>2, <3>1, <3>5 DEF Locals
    <3>7. dv = 0
      BY <3>5
    <3> QED
      BY <1>3, <2>1, <3>2, <3>3, <3>6, <3>7
  <2>3. CASE ~Match(t)
    <3>1. ASSUME pc'[t] \in Matched \ {"match"}
          PROVE  /\ loc'[t].dv = 0
                 /\ \E b \in Placed : loc'[t].bid = b
                                      /\ loc'[t].newBid = orders[b].terms.volume
      <4>1. pc[t] \in Matched \ {"match"} /\ loc'[t] = loc[t]
        BY <1>2, <1>8, <2>3, <3>1, QuietMatched
      <4>2. loc[t].bid \in Placed
        BY <1>2, <4>1, PlacedTerms DEF TypeOK, OfSide
      <4> QED
        BY <4>1, <4>2 DEF BidsWhole
    <3> QED
      BY <1>3, <2>1, <3>1
  <2> QED
    BY <2>2, <2>3
<1> QED
  BY <1>1, <1>4, <1>5, <1>6, <1>7, <1>8 DEF StepOf

\* Whatever the constants, no trade moves anything: a bid holds all of its volume
\* from the start, so there is nothing left for it to take.
THEOREM BidsInvariance == Spec => []BidsWhole
<1>1. Inv /\ BidsWhole /\ [Next]_vars => BidsWhole'
  <2> SUFFICES ASSUME Inv, BidsWhole, UNCHANGED vars
               PROVE  BidsWhole'
    BY BidsStep
  <2>1. Placed' = Placed
    BY DEF vars, Placed
  <2> QED
    BY <2>1 DEF vars, BidsWhole
<1> QED
  BY <1>1, BidsInit, Invariance, PTL DEF Spec

\* Where the legs stand in their order.
LEMMA PastLabels ==
    /\ \A i, j \in 1..4 : SettleLabel[i] \in Past(j) <=> 2 <= i /\ i <= j
    /\ \A j \in 1..4 : Past(j) \subseteq {"settle 2", "settle 3", "settle 4"}
<1>1. ASSUME NEW i \in 1..4, NEW j \in 1..4, SettleLabel[i] = SettleLabel[j]
      PROVE  i = j
  <2>1. \A m \in 1..4 : m = 1 \/ m = 2 \/ m = 3 \/ m = 4
    OBVIOUS
  <2>2. \A m \in 1..4 : m # 1 => SettleLabel[m] # "settle 1"
    BY <2>1, LabelFacts
  <2>3. \A m \in 1..4 : m # 2 => SettleLabel[m] # "settle 2"
    BY <2>1, LabelFacts
  <2>4. \A m \in 1..4 : m # 3 => SettleLabel[m] # "settle 3"
    BY <2>1, LabelFacts
  <2>5. \A m \in 1..4 : m # 4 => SettleLabel[m] # "settle 4"
    BY <2>1, LabelFacts
  <2> QED
    BY <1>1, <2>1, <2>2, <2>3, <2>4, <2>5, LabelFacts
<1>2. \A j \in 1..4 : \A i \in 2..j : i \in 1..4
  OBVIOUS
<1>3. ASSUME NEW i \in 1..4, NEW j \in 1..4
      PROVE  SettleLabel[i] \in Past(j) <=> 2 <= i /\ i <= j
  <2>1. ASSUME SettleLabel[i] \in Past(j)
        PROVE  2 <= i /\ i <= j
    <3>1. PICK m \in 2..j : SettleLabel[i] = SettleLabel[m]
      BY <2>1 DEF Past
    <3>2. i = m
      BY <1>1, <1>2, <3>1
    <3> QED
      BY <3>2
  <2>2. ASSUME 2 <= i, i <= j
        PROVE  SettleLabel[i] \in Past(j)
    BY <2>2 DEF Past
  <2> QED
    BY <2>1, <2>2
<1>4. ASSUME NEW j \in 1..4, NEW i \in 2..j
      PROVE  SettleLabel[i] \in {"settle 2", "settle 3", "settle 4"}
  <2>1. i = 2 \/ i = 3 \/ i = 4
    OBVIOUS
  <2> QED
    BY <2>1, LabelFacts
<1> QED
  BY <1>3, <1>4 DEF Past

LEMMA WithinFinite ==
    ASSUME NEW b, NEW k
    PROVE  IsFiniteSet(Within(b, k)) /\ Cardinality(Within(b, k)) \in Nat
<1>1. IsFiniteSet(Within(b, k))
  BY ClientsAssumption, FS_Subset DEF Within
<1> QED
  BY <1>1, FS_CardinalityType

\* As nothing is bought, no leg moves anything.
LEMMA LegsAreNothing ==
    ASSUME TypeOK, BidsWhole, NEW t \in Clients, NEW k \in 1..4, pc[t] = SettleLabel[k]
    PROVE  Leg(t, k).amount = 0
<1>1. k = 1 \/ k = 2 \/ k = 3 \/ k = 4
  OBVIOUS
<1>2. pc[t] \in Matched /\ loc[t].dv = 0
  BY <1>1, LabelFacts DEF BidsWhole, Matched, Filling, Settling
<1>3. /\ OfSide(loc[t].ask, "ASK") /\ OfSide(loc[t].bid, "BID")
  BY <1>2 DEF TypeOK
<1>4. Least(loc[t].ask, loc[t].bid) \in {loc[t].ask, loc[t].bid}
  BY DEF Least
<1>5. Price(Least(loc[t].ask, loc[t].bid)) \in Nat
  BY <1>3, <1>4, PricesAssumption DEF OfSide, Price, Terms
<1>6. PICK price \in Nat : price = Price(Least(loc[t].ask, loc[t].bid))
  BY <1>5
<1>7. 0 * price = 0 /\ 0 \div 1000 = 0
  OBVIOUS
<1>8. Fee(0) = 0 /\ loc[t].dv * Price(Least(loc[t].ask, loc[t].bid)) = 0
  BY <1>2, <1>6, <1>7 DEF Fee
<1>9. CASE k = 1
  BY <1>8, <1>9 DEF Leg
<1>10. CASE k = 2
  BY <1>2, <1>8, <1>10 DEF Leg
<1>11. CASE k = 3
  BY <1>8, <1>11 DEF Leg
<1>12. CASE k = 4
  BY <1>2, <1>8, <1>12 DEF Leg
<1> QED
  BY <1>1, <1>9, <1>10, <1>11, <1>12

\* Nothing stands in the way of a leg of a sound bid.
LEMMA LegsPossible ==
    ASSUME TypeOK, NEW t \in Clients, NEW k \in 1..4, pc[t] = SettleLabel[k],
           Sound(loc[t].bid)
    PROVE  ~Impossible(Leg(t, k))
<1>1. OfSide(loc[t].ask, "ASK") /\ OfSide(loc[t].bid, "BID")
  BY LabelFacts DEF TypeOK
<1>2. loc[t].ask \in Placed /\ loc[t].bid \in Placed /\ loc[t].ask # loc[t].bid
  BY <1>1, PlacedTerms DEF OfSide
<1>3. /\ Account(loc[t].ask) \in Opened /\ Account(loc[t].bid) \in Opened
      /\ Account(loc[t].ask) # Account(loc[t].bid)
      /\ MarketAccount \notin Opened
  BY <1>2, OpenedAssumption DEF Sound
<1>4. k = 1 \/ k = 2 \/ k = 3 \/ k = 4
  OBVIOUS
<1>5. CASE k = 1
  <2>1. Leg(t, k).to = MarketAccount /\ Leg(t, k).from = Account(loc[t].bid)
    BY <1>5 DEF Leg
  <2> QED
    BY <1>3, <2>1 DEF Impossible
<1>6. CASE k = 2
  <2>1. Leg(t, k).to = MarketAccount /\ Leg(t, k).from = Account(loc[t].ask)
    BY <1>6 DEF Leg
  <2> QED
    BY <1>3, <2>1 DEF Impossible
<1>7. CASE k = 3
  <2>1. Leg(t, k).to = Account(loc[t].ask) /\ Leg(t, k).from = Account(loc[t].bid)
    BY <1>7 DEF Leg
  <2> QED
    BY <1>3, <2>1 DEF Impossible
<1>8. CASE k = 4
  <2>1. Leg(t, k).to = Account(loc[t].bid) /\ Leg(t, k).from = Account(loc[t].ask)
    BY <1>8 DEF Leg
  <2> QED
    BY <1>3, <2>1 DEF Impossible
<1> QED
  BY <1>4, <1>5, <1>6, <1>7, <1>8

LEMMA LegsInit == Init => LegsCounted
<1> SUFFICES ASSUME Init
             PROVE  LegsCounted
  OBVIOUS
<1>1. Placed = {}
  BY DEF Init, Placed
<1>2. \A b \in OrderIds, k \in 1..4 : posted[k][b] = 0
  BY DEF Init
<1> QED
  BY <1>1, <1>2 DEF LegsCounted

\* A step that neither posts a transaction nor takes a client into the legs of a
\* trade of a sound bid, or out of them.
LEMMA LegsKept ==
    ASSUME TypeOK, LegsCounted, NEW t \in Clients, posted' = posted,
           Placed \subseteq Placed', Placed' \subseteq OrderIds,
           \A o \in Placed : orders'[o].terms = orders[o].terms,
           \A u \in Clients \ {t} : pc'[u] = pc[u] /\ loc'[u] = loc[u],
           \A b \in Placed, k \in 1..4 : Sound(b) => (t \in Within(b, k)' <=> t \in Within(b, k)),
           \A b \in Placed' \ Placed, k \in 1..4 : t \notin Within(b, k)'
    PROVE  LegsCounted'
<1>1. \A b \in OrderIds \ Placed', k \in 1..4 : posted'[k][b] = 0
  BY DEF LegsCounted
<1>2. ASSUME NEW b \in Placed, Sound(b)'
      PROVE  Sound(b)
  BY <1>2 DEF Sound, Account
<1>3. ASSUME NEW b \in Placed, Sound(b)', NEW k \in 1..4
      PROVE  posted'[1][b] = posted'[k][b] + Cardinality(Within(b, k)')
  <2>1. Sound(b)
    BY <1>2, <1>3
  <2>2. Within(b, k)' = Within(b, k)
    <3>1. t \in Within(b, k)' <=> t \in Within(b, k)
      BY <2>1
    <3>2. \A u \in Clients \ {t} : u \in Within(b, k)' <=> u \in Within(b, k)
      BY DEF Within, Past
    <3>3. \A u : u \in Within(b, k) \/ u \in Within(b, k)' => u \in Clients
      BY DEF Within
    <3>4. \A u : u \in Within(b, k)' <=> u \in Within(b, k)
      BY <3>1, <3>2, <3>3
    <3> QED
      BY <3>4
  <2>3. posted[1][b] = posted[k][b] + Cardinality(Within(b, k))
    BY <2>1 DEF LegsCounted
  <2> QED
    BY <2>2, <2>3
<1>4. ASSUME NEW b \in Placed' \ Placed, NEW k \in 1..4
      PROVE  posted'[1][b] = posted'[k][b] + Cardinality(Within(b, k)')
  <2>1. posted[1][b] = 0 /\ posted[k][b] = 0
    BY <1>4 DEF LegsCounted
  <2>2. ASSUME NEW u \in Within(b, k)'
        PROVE  FALSE
    <3>1. u \in Clients \ {t} /\ loc[u].bid = b /\ pc[u] \in Past(k)
      BY <1>4, <2>2 DEF Within, Past
    <3>2. pc[u] \in Matched
      BY <3>1, PastLabels DEF Matched, Filling, Settling
    <3>3. loc[u].bid \in Placed
      BY <3>1, <3>2, PlacedTerms DEF TypeOK, OfSide
    <3> QED
      BY <3>1, <3>3
  <2>3. Within(b, k)' = {}
    BY <2>2
  <2> QED
    BY <2>1, <2>3, FS_EmptySet
<1> QED
  BY <1>1, <1>3, <1>4 DEF LegsCounted

\* The quiet steps outside the legs.
LEMMA QuietLegs ==
    ASSUME TypeOK, NEW t \in Clients, QuietStep(t)
    PROVE  \/ \E k \in 1..4 : Settle(t, k) \/ SettleFails(t, k)
           \/ /\ posted' = posted
              /\ {pc[t], pc'[t]} \cap {"settle 2", "settle 3", "settle 4"} = {}
<1>1. DOMAIN pc = Clients
  BY DEF TypeOK
<1>2. ASSUME Begin(t) \/ BidFirst(t) \/ Match(t) \/ RemoveEnd(t)
      PROVE  /\ posted' = posted
             /\ {pc[t], pc'[t]} \cap {"settle 2", "settle 3", "settle 4"} = {}
  BY <1>1, <1>2 DEF Begin, BidFirst, Match, RemoveEnd, Return, Goto
<1>3. ASSUME AskScan(t) \/ BidScan(t)
      PROVE  /\ posted' = posted
             /\ {pc[t], pc'[t]} \cap {"settle 2", "settle 3", "settle 4"} = {}
  <2>1. pc'[t] \in {pc[t], "idle", "bid first", "match"}
    BY <1>1, <1>3 DEF AskScan, BidScan, FindsNone, Crosses, Return, Goto
  <2> QED
    BY <1>3, <2>1 DEF AskScan, BidScan
<1>4. ASSUME NEW reset \in BOOLEAN, CollectIds(t, reset)
      PROVE  /\ posted' = posted
             /\ {pc[t], pc'[t]} \cap {"settle 2", "settle 3", "settle 4"} = {}
  BY <1>1, <1>4 DEF CollectIds, Goto
<1>5. ASSUME NEW asset \in Assets, SetAsset(t, asset)
      PROVE  /\ posted' = posted
             /\ {pc[t], pc'[t]} \cap {"settle 2", "settle 3", "settle 4"} = {}
  BY <1>1, <1>5 DEF SetAsset, Return, Goto
<1>6. ASSUME NEW side \in Sides, Close(t, side)
      PROVE  /\ posted' = posted
             /\ {pc[t], pc'[t]} \cap {"settle 2", "settle 3", "settle 4"} = {}
  <2>1. side = "ASK" \/ side = "BID"
    BY DEF Sides
  <2>2. pc[t] \in {"close ask", "close bid"}
    BY <1>6, <2>1, SideLabels DEF Close
  <2>3. pc'[t] \in {"shut ask", "shut bid", "close bid", "settle 1"}
    BY <1>1, <1>6, <2>1, SideLabels DEF Close, Goto, ClosedNext
  <2> QED
    BY <1>6, <2>2, <2>3 DEF Close
<1>7. ASSUME NEW o \in OrderIds, Cancel(t, o) \/ Finds(t, o)
      PROVE  /\ posted' = posted
             /\ {pc[t], pc'[t]} \cap {"settle 2", "settle 3", "settle 4"} = {}
  BY <1>1, <1>7 DEF Cancel, Finds, Remove, Goto
<1> QED
  BY <1>2, <1>3, <1>4, <1>5, <1>6, <1>7 DEF QuietStep

\* A transaction is posted: the trade has its k-th leg and is past it.
LEMMA LegPosted ==
    ASSUME Inv, LegsCounted, NEW t \in Clients, NEW k \in 1..4, Settle(t, k)
    PROVE  LegsCounted'
<1>1. PICK b : b = loc[t].bid
  OBVIOUS
<1>2. /\ TypeOK /\ DOMAIN pc = Clients /\ DOMAIN loc = Clients
      /\ posted \in [1..4 -> [OrderIds -> Nat]] /\ Placed \subseteq OrderIds
  BY DEF Inv, TypeOK, Placed
<1>3. pc[t] = SettleLabel[k] /\ b \in OrderIds /\ b \in Placed /\ b # NoOrder
  <2>1. pc[t] = SettleLabel[k] /\ pc[t] \in Matched
    BY LabelFacts DEF Settle
  <2>2. OfSide(b, "BID")
    BY <1>1, <1>2, <2>1 DEF TypeOK
  <2> QED
    BY <1>2, <2>1, <2>2, PlacedTerms, IdsAreNumbers DEF OfSide
<1>4. UNCHANGED orders /\ Placed' = Placed /\ (\A o \in Placed : Sound(o)' <=> Sound(o))
  BY DEF Settle, Placed, Sound, Account
<1>5. /\ \A j \in 1..4, o \in OrderIds :
           posted'[j][o] = IF j = k /\ o = b THEN posted[j][o] + 1 ELSE posted[j][o]
  BY <1>1, <1>2, <1>3 DEF Settle
<1>6. /\ k < 4 => pc'[t] = SettleLabel[k + 1] /\ loc'[t] = loc[t]
      /\ k = 4 => pc'[t] = "begin" /\ loc'[t] = NoLocals
      /\ \A u \in Clients \ {t} : pc'[u] = pc[u] /\ loc'[u] = loc[u]
  BY <1>2 DEF Settle, Goto
<1>7. ASSUME NEW j \in 1..4
      PROVE  /\ t \in Within(b, j) <=> 2 <= k /\ k <= j
             /\ t \in Within(b, j)' <=> k < j
  <2>1. t \in Within(b, j) <=> 2 <= k /\ k <= j
    BY <1>1, <1>3, PastLabels DEF Within
  <2>2. CASE k < 4
    <3>1. PICK i \in 1..4 : i = k + 1
      BY <2>2
    <3>2. pc'[t] = SettleLabel[i] /\ loc'[t].bid = b
      BY <1>1, <1>6, <2>2, <3>1
    <3>3. t \in Within(b, j)' <=> pc'[t] \in Past(j)
      BY <3>2 DEF Within, Past
    <3>4. t \in Within(b, j)' <=> 2 <= i /\ i <= j
      BY <3>2, <3>3, PastLabels
    <3> QED
      BY <2>1, <3>1, <3>4
  <2>3. CASE k = 4
    <3>1. loc'[t].bid = NoOrder
      BY <1>6, <2>3 DEF NoLocals
    <3>2. t \notin Within(b, j)'
      BY <1>3, <3>1 DEF Within
    <3> QED
      BY <2>1, <2>3, <3>2
  <2> QED
    BY <2>2, <2>3
<1>8. ASSUME NEW o \in Placed, NEW j \in 1..4
      PROVE  \A u : u # t => (u \in Within(o, j)' <=> u \in Within(o, j))
  BY <1>6 DEF Within, Past
<1>9. ASSUME NEW o \in Placed, o # b, NEW j \in 1..4
      PROVE  Within(o, j)' = Within(o, j)
  <2>1. t \notin Within(o, j)
    BY <1>1, <1>9 DEF Within
  <2>2. loc'[t].bid \in {b, NoOrder}
    BY <1>1, <1>6 DEF NoLocals
  <2>3. o # NoOrder
    BY <1>2, IdsAreNumbers
  <2>4. t \notin Within(o, j)'
    BY <1>9, <2>2, <2>3 DEF Within
  <2>5. \A u : u \in Within(o, j)' <=> u \in Within(o, j)
    BY <1>8, <2>1, <2>4
  <2> QED
    BY <2>5
<1>10. ASSUME Sound(b), NEW j \in 1..4
       PROVE  posted'[1][b] = posted'[j][b] + Cardinality(Within(b, j)')
  <2>1. posted[1][b] = posted[j][b] + Cardinality(Within(b, j))
    BY <1>3, <1>10 DEF LegsCounted
  <2>2. PICK n \in Nat, p \in Nat, q \in Nat :
          n = Cardinality(Within(b, j)) /\ p = posted[1][b] /\ q = posted[j][b]
    BY <1>2, <1>3, WithinFinite
  <2>3. p = q + n /\ IsFiniteSet(Within(b, j))
    BY <2>1, <2>2, WithinFinite
  <2>4. \A u : u # t => (u \in Within(b, j)' <=> u \in Within(b, j))
    BY <1>3, <1>8
  <2>5. /\ posted'[1][b] = IF k = 1 THEN p + 1 ELSE p
        /\ posted'[j][b] = IF k = j THEN q + 1 ELSE q
    BY <1>3, <1>5, <2>2
  <2>6. CASE k = 1 /\ j = 1
    <3>1. t \notin Within(b, j) /\ t \notin Within(b, j)'
      BY <1>7, <2>6
    <3>2. Within(b, j)' = Within(b, j)
      <4>1. \A u : u \in Within(b, j)' <=> u \in Within(b, j)
        BY <2>4, <3>1
      <4> QED
        BY <4>1
    <3> QED
      BY <2>2, <2>3, <2>5, <2>6, <3>2
  <2>7. CASE k = 1 /\ 1 < j
    <3>1. t \notin Within(b, j) /\ t \in Within(b, j)'
      BY <1>7, <2>7
    <3>2. Within(b, j)' = Within(b, j) \cup {t}
      <4>1. \A u : u \in Within(b, j)' <=> u \in Within(b, j) \cup {t}
        BY <2>4, <3>1
      <4> QED
        BY <4>1
    <3>3. Cardinality(Within(b, j)') = n + 1
      BY <2>2, <2>3, <3>1, <3>2, FS_AddElement
    <3> QED
      BY <2>3, <2>5, <2>7, <3>3
  <2>8. CASE k > 1 /\ j = k
    <3>1. t \in Within(b, j) /\ t \notin Within(b, j)'
      BY <1>7, <2>8
    <3>2. Within(b, j)' = Within(b, j) \ {t}
      <4>1. \A u : u \in Within(b, j)' <=> u \in Within(b, j) \ {t}
        BY <2>4, <3>1
      <4> QED
        BY <4>1
    <3>3. Cardinality(Within(b, j)') = n - 1
      BY <2>2, <2>3, <3>1, <3>2, FS_RemoveElement
    <3> QED
      BY <2>3, <2>5, <2>8, <3>3
  <2>9. CASE k > 1 /\ j # k
    <3>1. t \in Within(b, j) <=> t \in Within(b, j)'
      BY <1>7, <2>9
    <3>2. Within(b, j)' = Within(b, j)
      <4>1. \A u : u \in Within(b, j)' <=> u \in Within(b, j)
        BY <2>4, <3>1
      <4> QED
        BY <4>1
    <3> QED
      BY <2>2, <2>3, <2>5, <2>9, <3>2
  <2> QED
    BY <2>6, <2>7, <2>8, <2>9
<1>11. ASSUME NEW o \in Placed, Sound(o), NEW j \in 1..4
       PROVE  posted'[1][o] = posted'[j][o] + Cardinality(Within(o, j)')
  <2>1. CASE o = b
    BY <1>10, <1>11, <2>1
  <2>2. CASE o # b
    <3>1. posted'[1][o] = posted[1][o] /\ posted'[j][o] = posted[j][o]
      BY <1>2, <1>5, <2>2
    <3>2. posted[1][o] = posted[j][o] + Cardinality(Within(o, j))
      BY <1>11 DEF LegsCounted
    <3>3. Within(o, j)' = Within(o, j)
      BY <1>9, <2>2
    <3> QED
      BY <3>1, <3>2, <3>3
  <2> QED
    BY <2>1, <2>2
<1>12. ASSUME NEW o \in OrderIds \ Placed, NEW j \in 1..4
       PROVE  posted'[j][o] = 0
  BY <1>3, <1>5 DEF LegsCounted
<1> QED
  BY <1>4, <1>11, <1>12 DEF LegsCounted

LEMMA LegsStep ==
    ASSUME Inv, Inv', BidsWhole, LegsCounted, Next
    PROVE  LegsCounted'
<1>1. PICK t \in Clients : StepOf(t)
  BY StepCases
<1>2. /\ TypeOK /\ LifeRight /\ LockRight /\ Placed \subseteq OrderIds /\ Placed' \subseteq OrderIds
      /\ DOMAIN pc = Clients /\ DOMAIN loc = Clients /\ DOMAIN orders = OrderIds
  BY DEF Inv, TypeOK, Placed
<1>3. ASSUME {pc[t], pc'[t]} \cap {"settle 2", "settle 3", "settle 4"} = {}
      PROVE  \A b : \A k \in 1..4 : t \notin Within(b, k) /\ t \notin Within(b, k)'
  <2>1. \A k \in 1..4 : Past(k) \subseteq {"settle 2", "settle 3", "settle 4"}
    BY PastLabels
  <2>2. \A k : Past(k)' = Past(k)
    BY DEF Past
  <2> QED
    BY <1>3, <2>1, <2>2 DEF Within
<1>4. ASSUME posted' = posted, Placed' = Placed,
             \A o \in Placed : orders'[o].terms = orders[o].terms,
             \A u \in Clients \ {t} : pc'[u] = pc[u] /\ loc'[u] = loc[u],
             {pc[t], pc'[t]} \cap {"settle 2", "settle 3", "settle 4"} = {}
      PROVE  LegsCounted'
  BY <1>2, <1>3, <1>4, LegsKept
<1>5. ASSUME Keeps(t), posted' = posted,
             {pc[t], pc'[t]} \cap {"settle 2", "settle 3", "settle 4"} = {}
      PROVE  LegsCounted'
  <2>1. /\ \A o \in Placed : orders'[o].terms = orders[o].terms
        /\ \A u \in Clients \ {t} : pc'[u] = pc[u] /\ loc'[u] = loc[u]
    BY <1>2, <1>5 DEF Keeps
  <2> QED
    BY <1>2, <1>4, <1>5, <2>1, LifeKept
<1>6. ASSUME NEW terms \in OrdersOf[t], Place(t, terms)
      PROVE  LegsCounted'
  <2>1. PICK o, order : /\ o \notin Placed /\ Placed' = Placed \cup {o}
                        /\ orders' = [orders EXCEPT ![o] = order]
    BY <1>6, PlaceOrders DEF Inv
  <2>2. \A p \in Placed : orders'[p] = orders[p]
    BY <1>2, <2>1
  <2>3. PICK locals : /\ pc[t] = "idle" /\ pc' = [pc EXCEPT ![t] = "insert"]
                      /\ loc' = [loc EXCEPT ![t] = locals] /\ posted' = posted
    BY <1>6 DEF Place, Goto
  <2>4. /\ {pc[t], pc'[t]} \cap {"settle 2", "settle 3", "settle 4"} = {}
        /\ \A u \in Clients \ {t} : pc'[u] = pc[u] /\ loc'[u] = loc[u]
    BY <1>2, <2>3
  <2> QED
    BY <1>2, <1>3, <2>1, <2>2, <2>3, <2>4, LegsKept
<1>7. CASE Insert(t)
  <2>1. /\ pc[t] = "insert" /\ pc'[t] = "begin" /\ orders' = orders /\ posted' = posted
        /\ \A u \in Clients \ {t} : pc'[u] = pc[u] /\ loc'[u] = loc[u]
    BY <1>2, <1>7 DEF Insert, Goto
  <2>2. Placed' = Placed
    BY <2>1 DEF Placed
  <2> QED
    BY <1>4, <2>1, <2>2
<1>8. CASE Writes(t)
  <2>1. /\ Keeps(t) /\ posted' = posted
        /\ {pc[t], pc'[t]} \cap {"settle 2", "settle 3", "settle 4"} = {}
    BY <1>2, <1>8, WriteKeeps
  <2> QED
    BY <1>5, <2>1
<1>9. CASE Removes(t)
  <2>1. /\ Keeps(t) /\ posted' = posted
        /\ pc[t] \in {"remove", "removing"} /\ pc'[t] = "remove"
    BY <1>2, <1>9, RemoveOrders
  <2> QED
    BY <1>5, <2>1
<1>10. ASSUME NEW k \in 1..4, Settle(t, k)
       PROVE  LegsCounted'
  BY <1>10, LegPosted
<1>11. ASSUME NEW k \in 1..4, SettleFails(t, k), QuietStep(t)
       PROVE  LegsCounted'
  <2>1. pc[t] = SettleLabel[k] /\ pc'[t] = "idle" /\ posted' = posted
    BY <1>2, <1>11 DEF SettleFails, Throw, Return, Goto
  <2>2. ~Sound(loc[t].bid)
    <3>1. Impossible(Leg(t, k)) \/ Leg(t, k).amount > 0
      BY <1>11 DEF SettleFails
    <3>2. Leg(t, k).amount = 0
      BY <1>2, <2>1, LegsAreNothing
    <3>3. Impossible(Leg(t, k))
      BY <3>1, <3>2
    <3> QED
      BY <1>2, <2>1, <3>3, LegsPossible
  <2>3. \A b, k2 : Sound(b) => t \notin Within(b, k2)
    BY <2>2 DEF Within
  <2>4. \A b : \A j \in 1..4 : t \notin Within(b, j)'
    <3>1. \A j \in 1..4 : "idle" \notin Past(j)
      BY PastLabels
    <3> QED
      BY <2>1, <3>1 DEF Within, Past
  <2>5. Keeps(t) /\ Placed' = Placed
    BY <1>2, <1>11, QuietKeeps, LifeKept
  <2>6. /\ \A o \in Placed : orders'[o].terms = orders[o].terms
        /\ \A u \in Clients \ {t} : pc'[u] = pc[u] /\ loc'[u] = loc[u]
    BY <1>2, <2>5 DEF Keeps
  <2> QED
    BY <1>2, <2>1, <2>3, <2>4, <2>5, <2>6, LegsKept
<1>12. CASE QuietStep(t)
  <2>1. CASE \E k \in 1..4 : Settle(t, k) \/ SettleFails(t, k)
    BY <1>10, <1>11, <1>12, <2>1
  <2>2. CASE /\ posted' = posted
             /\ {pc[t], pc'[t]} \cap {"settle 2", "settle 3", "settle 4"} = {}
    BY <1>2, <1>5, <1>12, <2>2, QuietKeeps
  <2> QED
    BY <1>2, <1>12, <2>1, <2>2, QuietLegs
<1> QED
  BY <1>1, <1>6, <1>7, <1>8, <1>9, <1>12 DEF StepOf

\* No trade between accounts that exist and differ is left half posted: at rest
\* each of its first transactions has had the three that follow, whatever the
\* number of trades of the same bid that ran at once.
THEOREM TradesWhole == Spec => []TradesSettleWhole
<1>1. Inv /\ Inv' /\ BidsWhole /\ LegsCounted /\ [Next]_vars => LegsCounted'
  <2> SUFFICES ASSUME LegsCounted, UNCHANGED vars
               PROVE  LegsCounted'
    BY LegsStep
  <2>1. /\ Placed' = Placed
        /\ \A b \in Placed : Sound(b)' <=> Sound(b)
        /\ \A b, k : Within(b, k)' = Within(b, k)
    BY DEF vars, Placed, Sound, Account, Within, Past
  <2> QED
    BY <2>1 DEF vars, LegsCounted
<1>2. Inv /\ LegsCounted => TradesSettleWhole
  <2> SUFFICES ASSUME Inv, LegsCounted, AtRest, NEW b \in Placed, Sound(b), NEW k \in 1..4
               PROVE  posted[k][b] = posted[1][b]
    BY DEF TradesSettleWhole, Sound
  <2>1. Within(b, k) = {}
    BY PastLabels DEF Within, AtRest
  <2>2. posted[1][b] = posted[k][b] + 0
    BY <2>1, FS_EmptySet DEF LegsCounted
  <2>3. posted[k][b] \in Nat
    BY ZenonT(30) DEF Inv, TypeOK, Placed
  <2> QED
    BY <2>2, <2>3
<1> QED
  BY <1>1, <1>2, LegsInit, Invariance, BidsInvariance, PTL DEF Spec
=============================================================================
