------------------------- MODULE OrderBookRefinement -------------------------
(***************************************************************************)
(* The proof that OrderBook implements PriceTimeMatching: addOrder's walk  *)
(* with its cursor and its fill array is price-time matching.              *)
(***************************************************************************)
EXTENDS OrderBookProofs

(* The matches of the incoming order are what crosses it in the queue it   *)
(* walks, and addOrder has not passed any of them.                         *)
LEMMA MatchesAreAhead ==
  ASSUME IndInv, ord # NoOrder, ord.quantity > 0, NEW p \in Matching!Matches(ord)
  PROVE  \E k \in DOMAIN book[OppList(ord)] :
           /\ p = book[OppList(ord)][k]
           /\ Crosses(p, ord)
           /\ k \in Int /\ cur \in Int /\ cur <= k
<1> DEFINE q == OppList(ord)
<1>1. /\ p \in AllResting /\ p.instrument = ord.instrument /\ p.type # ord.type
      /\ p.price = ord.price
  BY DEF Matching!Matches
<1>2. p \in Order /\ ord \in Order
  BY <1>1, RestingFacts
<1>3. OwnList(p) = q
  BY <1>1, <1>2, OrderFields DEF OwnList, OppList, OppositeSide
<1>4. q \in Queues /\ book \in [Queues -> Seq(Order)]
  BY <1>2, OrderFields DEF IndInv, TypeOK
<1>5. DOMAIN book[q] = 1 .. Len(book[q]) /\ Len(book[q]) \in Nat
  BY <1>4, BookDomain
<1>6. PICK r \in Queues : \E j \in DOMAIN book[r] : p = book[r][j]
  BY <1>1 DEF AllResting, RestingIn
<1>7. r = q
  BY <1>3, <1>6 DEF IndInv, Filed
<1>8. PICK k \in DOMAIN book[q] : p = book[q][k]
  BY <1>6, <1>7
<1>9. Crosses(p, ord)
  BY <1>1 DEF Crosses
<1>10. /\ cur \in 1 .. Len(book[q]) + 1
       /\ \A i \in 1 .. cur - 1 : ~Crosses(book[q][i], ord)
  BY DEF IndInv, PassedDoNotCross
<1> HIDE DEF q
<1>11. k \in Int /\ k >= 1 /\ cur \in Int
  BY <1>5, <1>8, <1>10
<1>12. k \notin 1 .. cur - 1
  BY <1>8, <1>9, <1>10
<1>13. cur <= k
  BY <1>11, <1>12
<1> QED
  BY <1>8, <1>9, <1>11, <1>13 DEF q

(* The resting order addOrder executes against is the oldest match.        *)
LEMMA RestingIsOldestMatch ==
  ASSUME IndInv, Walking, Crosses(Resting, ord)
  PROVE  Resting \in AllResting /\ Resting \in Matching!Oldest(Matching!Matches(ord))
<1> DEFINE q == OppList(ord)
<1>1. /\ ord \in Order /\ ord # NoOrder /\ q \in Queues
      /\ cur \in DOMAIN book[q] /\ DOMAIN book[q] = 1 .. Len(book[q])
      /\ Resting = book[q][cur] /\ Resting \in Order
  BY WalkingFacts DEF Walking
<1>2. Resting \in AllResting /\ OwnList(Resting) = q
  BY <1>1, RestingIsResting DEF IndInv, Filed
<1>3. Resting \in Matching!Matches(ord)
  BY <1>1, <1>2, OrderFields
     DEF Matching!Matches, OwnList, OppList, OppositeSide, Crosses
<1>4. ASSUME NEW p \in Matching!Matches(ord)
      PROVE  Resting.id <= p.id
  <2>1. PICK k \in DOMAIN book[q] : p = book[q][k] /\ cur \in Int /\ k \in Int /\ cur <= k
    BY MatchesAreAhead DEF Walking
  <2>2. p \in Order
    BY RestingFacts DEF Matching!Matches
  <2>3. p.id \in Int /\ Resting.id \in Int
    BY <1>1, <2>2, OrderFields
  <2>4. CASE cur = k
    BY <1>1, <2>1, <2>3, <2>4
  <2>5. CASE cur < k
    <3>1. book[q][cur].id < book[q][k].id
      BY <1>1, <2>1, <2>5 DEF IndInv, ArrivalOrder
    <3> QED
      BY <1>1, <2>1, <2>3, <3>1
  <2> QED
    BY <2>1, <2>4, <2>5
<1> QED
  BY <1>2, <1>3, <1>4 DEF Matching!Oldest

LEMMA PlaceOrderRefines ==
  ASSUME NEW fd \in Fds, NEW side \in Sides, NEW listing \in Listings,
         NEW quantity \in Quantities,
         PlaceOrder(fd, side, listing[1], quantity, listing[2])
  PROVE  Matching!Submit(fd, side, listing[1], quantity, listing[2])
<1>1. AllResting' = AllResting
  BY DEF PlaceOrder, AllResting, RestingIn
<1> QED
  BY <1>1 DEF PlaceOrder, Matching!Submit

(* What both executions have in common: the quantity is as much as both    *)
(* orders have.                                                            *)
LEMMA TradeRefines ==
  ASSUME IndInv, Walking, NEW qty, qty = ExecutedQuantity(Resting, ord), Trade(qty),
         AllResting' = (AllResting \ {Resting})
                       \cup Matching!Left(Matching!Reduced(Resting, qty))
  PROVE  Resting \in AllResting /\ Matching!Execute(Resting)
<1>1. Resting \in AllResting /\ Resting \in Matching!Oldest(Matching!Matches(ord))
  BY RestingIsOldestMatch DEF Trade
<1>2. /\ ord # NoOrder /\ ord.quantity \in Nat
      /\ qty \in Nat /\ qty > 0 /\ qty <= ord.quantity /\ qty <= Resting.quantity
      /\ qty = Resting.quantity \/ qty = ord.quantity
  BY WalkingFacts, ExecutedQuantityBounds DEF Walking
<1>3. ord' = Matching!Reduced(ord, qty) /\ next_order_id' = next_order_id
  BY DEF Trade, Matching!Reduced
<1>4. qty \in 1 .. ord.quantity
  BY <1>2
<1> QED
  BY <1>1, <1>2, <1>3, <1>4 DEF Matching!Execute

LEMMA ExecuteAllRefines ==
  ASSUME IndInv, ExecuteAll
  PROVE  Resting \in AllResting /\ Matching!Execute(Resting)
<1> DEFINE q == OppList(ord)
           qty == ExecutedQuantity(Resting, ord)
<1>1. /\ Walking /\ qty = Resting.quantity /\ Trade(qty)
      /\ book' = [book EXCEPT ![q] = Unlinked(book[q], cur)]
  BY DEF ExecuteAll
<1>2. /\ q \in Queues /\ cur \in DOMAIN book[q] /\ Resting = book[q][cur]
      /\ Resting \in Order /\ Resting.quantity \in Nat
  BY <1>1, WalkingFacts
<1> HIDE DEF q
<1>3. AllResting' = AllResting \ {Resting}
  BY <1>1, <1>2, UnlinkingResting
<1>4. Matching!Left(Matching!Reduced(Resting, qty)) = {}
  <2>1. [Resting EXCEPT !.quantity = Resting.quantity - qty].quantity = 0
    BY <1>1, <1>2 DEF Order
  <2> QED
    BY <2>1 DEF Matching!Left, Matching!Reduced
<1> QED
  BY <1>1, <1>3, <1>4, TradeRefines

LEMMA ExecutePartRefines ==
  ASSUME IndInv, ExecutePart
  PROVE  Resting \in AllResting /\ Matching!Execute(Resting)
<1> DEFINE q == OppList(ord)
           qty == ExecutedQuantity(Resting, ord)
           rest == [Resting EXCEPT !.quantity = Resting.quantity - qty]
<1>1. /\ Walking /\ qty < Resting.quantity /\ Trade(qty)
      /\ book' = [book EXCEPT ![q] = [book[q] EXCEPT ![cur] = rest]]
  BY DEF ExecutePart, Resting
<1>2. /\ q \in Queues /\ cur \in DOMAIN book[q] /\ Resting = book[q][cur]
      /\ Resting \in Order /\ Resting.quantity \in Nat /\ qty \in Nat
  BY <1>1, WalkingFacts, ExecutedQuantityBounds
<1>3. Matching!Left(Matching!Reduced(Resting, qty)) = {rest}
  <2>1. rest.quantity = Resting.quantity - qty
    BY <1>2 DEF Order
  <2>2. rest.quantity > 0
    BY <1>1, <1>2, <2>1
  <2> QED
    BY <2>2 DEF Matching!Left, Matching!Reduced
<1> HIDE DEF q, rest
<1>4. AllResting' = (AllResting \ {Resting}) \cup {rest}
  BY <1>1, <1>2, RewritingResting
<1> QED
  BY <1>1, <1>3, <1>4, TradeRefines

(* addOrder returns only when nothing is left to execute against.          *)
LEMMA ReturnRefines ==
  ASSUME IndInv, Return
  PROVE  Matching!Settle
<1>1. ord # NoOrder /\ ord \in Order /\ ~Walking /\ ord' = NoOrder
      /\ next_order_id' = next_order_id
  BY RestingFacts DEF Return
<1>2. ASSUME ord.quantity > 0
      PROVE  Matching!Matches(ord) = {}
  <2> SUFFICES ASSUME NEW p \in Matching!Matches(ord) PROVE FALSE
    OBVIOUS
  <2>1. PICK k \in DOMAIN book[OppList(ord)] : k \in Int /\ cur \in Int /\ cur <= k
    BY <1>1, <1>2, MatchesAreAhead
  <2>2. OppList(ord) \in Queues /\ book \in [Queues -> Seq(Order)]
    BY <1>1, OrderFields DEF IndInv, TypeOK
  <2>3. k <= Len(book[OppList(ord)]) /\ Len(book[OppList(ord)]) \in Nat
    BY <2>1, <2>2, BookDomain
  <2>4. cur <= Len(book[OppList(ord)])
    BY <2>1, <2>3
  <2> QED
    BY <1>1, <1>2, <2>4 DEF Walking
<1>3. AllResting' = AllResting \cup Matching!Left(ord)
  <2>1. CASE ord.quantity > 0
    BY <1>1, <2>1, LinkingResting DEF Return, Matching!Left
  <2>2. CASE ~(ord.quantity > 0)
    BY <2>2 DEF Return, Matching!Left, AllResting, RestingIn
  <2> QED
    BY <2>1, <2>2
<1> QED
  BY <1>1, <1>2, <1>3 DEF Matching!Settle

(* What a client cancels was an open order of its own.                     *)
LEMMA CancelOrderRefines ==
  ASSUME IndInv, NEW id \in OrderIds, NEW fd \in Fds, CancelOrder(id, fd)
  PROVE  \E p \in AllResting : p.client_fd = fd /\ Matching!Withdraw(p)
<1>1. PICK q \in Queues : \E i \in DOMAIN book[q] :
        FirstFound(q, i, id, fd) /\ book' = [book EXCEPT ![q] = Unlinked(book[q], i)]
  BY DEF CancelOrder
<1>2. PICK i \in DOMAIN book[q] :
        FirstFound(q, i, id, fd) /\ book' = [book EXCEPT ![q] = Unlinked(book[q], i)]
  BY <1>1
<1>3. AllResting' = AllResting \ {book[q][i]}
  BY <1>2, UnlinkingResting
<1>4. book[q][i] \in AllResting
  BY RestingIsResting
<1>5. book[q][i].client_fd = fd /\ book[q][i].client_fd # NoFd
  BY <1>2, FdAssumption DEF FirstFound, MayCancel
<1>6. Matching!Withdraw(book[q][i])
  BY <1>3, <1>5 DEF CancelOrder, Matching!Withdraw
<1> QED
  BY <1>4, <1>5, <1>6

LEMMA DetachClientOrdersRefines ==
  ASSUME IndInv, NEW fd \in Fds, DetachClientOrders(fd)
  PROVE  Matching!Disown(fd)
<1> DEFINE disowned(p) ==
             IF p.client_fd = fd THEN [p EXCEPT !.client_fd = NoFd] ELSE p
<1>1. ASSUME NEW r \in Queues
      PROVE  /\ DOMAIN book'[r] = DOMAIN book[r]
             /\ \A j \in DOMAIN book[r] : book'[r][j] = disowned(book[r][j])
  BY DEF DetachClientOrders, Detached
<1> HIDE DEF disowned
<1>2. ASSUME NEW o \in AllResting'
      PROVE  \E p \in AllResting : o = disowned(p)
  <2>1. PICK r \in Queues : \E j \in DOMAIN book'[r] : o = book'[r][j]
    BY DEF AllResting, RestingIn
  <2>2. PICK j \in DOMAIN book[r] : o = book'[r][j]
    BY <1>1, <2>1
  <2> QED
    BY <1>1, <2>2, RestingIsResting
<1>3. ASSUME NEW p \in AllResting
      PROVE  disowned(p) \in AllResting'
  <2>1. PICK r \in Queues : \E j \in DOMAIN book[r] : p = book[r][j]
    BY DEF AllResting, RestingIn
  <2>2. PICK j \in DOMAIN book[r] : p = book[r][j]
    BY <2>1
  <2>3. book'[r][j] \in AllResting'
    BY <1>1, <2>2 DEF AllResting, RestingIn
  <2> QED
    BY <1>1, <2>2, <2>3
<1>4. AllResting' = {disowned(p) : p \in AllResting}
  BY <1>2, <1>3
<1> QED
  BY <1>4 DEF disowned, DetachClientOrders, Matching!Disown

LEMMA NextRefines ==
  ASSUME IndInv, [Next]_vars
  PROVE  [Matching!Next]_(Matching!vars)
<1>1. CASE \E fd \in Fds, side \in Sides, listing \in Listings, quantity \in Quantities :
             PlaceOrder(fd, side, listing[1], quantity, listing[2])
  BY <1>1, PlaceOrderRefines DEF Matching!Next, Sides
<1>2. CASE Skip \/ UNCHANGED vars
  BY <1>2 DEF Skip, vars, bookVars, AllResting, RestingIn, Matching!vars
<1>3. CASE ExecuteAll
  BY <1>3, ExecuteAllRefines DEF Matching!Next
<1>4. CASE ExecutePart
  BY <1>4, ExecutePartRefines DEF Matching!Next
<1>5. CASE Return
  BY <1>5, ReturnRefines DEF Matching!Next
<1>6. CASE \E id \in OrderIds, fd \in Fds : CancelOrder(id, fd)
  BY <1>6, CancelOrderRefines DEF Matching!Next
<1>7. CASE \E fd \in Fds : DetachClientOrders(fd)
  BY <1>7, DetachClientOrdersRefines DEF Matching!Next
<1> QED
  BY <1>1, <1>2, <1>3, <1>4, <1>5, <1>6, <1>7 DEF Next

(* addOrder, cancelOrder and detachClientOrders do what price-time         *)
(* matching says: every execution is with the oldest open order of the     *)
(* other side at that price, as long as there is one.                      *)
THEOREM MatchingImplemented == Spec => ImplementsMatching
<1>1. Init => Matching!Init
  BY DEF Init, AllResting, RestingIn, Matching!Init
<1>2. IndInv /\ [Next]_vars => [Matching!Next]_(Matching!vars)
  BY NextRefines
<1> QED
  BY <1>1, <1>2, IndInvHolds, PTL DEF Spec, ImplementsMatching, Matching!Spec
=============================================================================
