--------------------------- MODULE OrderBookProofs ---------------------------
(***************************************************************************)
(* Theorems about OrderBook for every set of clients, prices, quantities   *)
(* and every number of orders.                                             *)
(***************************************************************************)
EXTENDS OrderBook, DataLemmas

(* Most steps only thin the book out: every order that rests afterwards    *)
(* rested before, in the same queue, in the same relative order, with the  *)
(* same identifier, price, side and instrument.  At most one position i of *)
(* one queue q disappears.                                                 *)

SameTerms(new, old) ==
  /\ new.id = old.id
  /\ new.price = old.price
  /\ new.type = old.type
  /\ new.instrument = old.instrument

OldPosition(r, j, q, i) == IF r = q /\ i <= j THEN j + 1 ELSE j

Thinned(new, old, q, i) ==
  \A r \in Queues : \A j \in 1 .. Len(new[r]) :
    /\ OldPosition(r, j, q, i) \in 1 .. Len(old[r])
    /\ SameTerms(new[r][j], old[r][OldPosition(r, j, q, i)])
    /\ new[r][j].quantity > 0

(* The part of the inductive invariant that is about the book alone.       *)
BookInv == Filed /\ Open /\ ArrivalOrder /\ OneHome /\ NeverLocked

LEMMA BookDomain ==
  ASSUME NEW b \in [Queues -> Seq(Order)], NEW q \in Queues
  PROVE  /\ b[q] \in Seq(Order)
         /\ Len(b[q]) \in Nat
         /\ DOMAIN b[q] = 1 .. Len(b[q])
         /\ \A i \in 1 .. Len(b[q]) : b[q][i] \in Order
  BY LenProperties, ElementOfSeq

LEMMA OrderFields ==
  ASSUME NEW o \in Order
  PROVE  /\ o.id \in OrderIds /\ o.id \in Int
         /\ o.quantity \in Nat
         /\ o.price \in Nat
         /\ o.client_fd \in Fds \cup {NoFd}
         /\ o.type \in {"BUY", "SELL"}
         /\ o.instrument \in Instruments
         /\ OwnList(o) \in Queues
         /\ OppList(o) \in Queues
         /\ OwnList(o) # OppList(o)
  BY DEF Order, OrderIds, Sides, Queues, OwnList, OppList, OppositeSide, Instruments

LEMMA RestingIsResting ==
  \A q \in Queues : \A i \in DOMAIN book[q] : book[q][i] \in AllResting
  BY DEF AllResting, RestingIn

LEMMA ThinningKeepsBookInv ==
  ASSUME book \in [Queues -> Seq(Order)], book' \in [Queues -> Seq(Order)],
         BookInv,
         NEW q \in Queues, NEW i \in Nat, Thinned(book', book, q, i)
  PROVE  BookInv'
<1> DEFINE old(r, j) == OldPosition(r, j, q, i)
<1>1. ASSUME NEW r \in Queues, NEW j \in DOMAIN book'[r]
      PROVE  /\ j \in Nat
             /\ old(r, j) \in DOMAIN book[r]
             /\ SameTerms(book'[r][j], book[r][old(r, j)])
             /\ book'[r][j].quantity > 0
             /\ book'[r][j] \in Order
             /\ book[r][old(r, j)] \in Order
  <2>1. DOMAIN book'[r] = 1 .. Len(book'[r]) /\ Len(book'[r]) \in Nat
    BY BookDomain
  <2>2. DOMAIN book[r] = 1 .. Len(book[r])
    BY BookDomain
  <2> QED
    <3>1. j \in 1 .. Len(book'[r])
      BY <2>1
    <3>2. /\ old(r, j) \in 1 .. Len(book[r])
          /\ SameTerms(book'[r][j], book[r][old(r, j)])
          /\ book'[r][j].quantity > 0
      BY <3>1 DEF Thinned
    <3>3. book'[r][j] \in Order
      BY <3>1, BookDomain
    <3>4. book[r][old(r, j)] \in Order
      BY <3>2, BookDomain
    <3> QED
      BY <2>1, <2>2, <3>1, <3>2, <3>3, <3>4
<1> HIDE DEF old
<1>2. Filed'
  <2> SUFFICES ASSUME NEW r \in Queues, NEW j \in DOMAIN book'[r]
               PROVE  OwnList(book'[r][j]) = r
    BY DEF Filed
  <2>1. OwnList(book'[r][j]) = OwnList(book[r][old(r, j)])
    BY <1>1 DEF SameTerms, OwnList
  <2>2. OwnList(book[r][old(r, j)]) = r
    BY <1>1 DEF Filed, BookInv
  <2> QED
    BY <2>1, <2>2
<1>3. Open'
  BY <1>1 DEF Open
<1>4. ArrivalOrder'
  <2> SUFFICES ASSUME NEW r \in Queues, NEW j \in DOMAIN book'[r], NEW k \in DOMAIN book'[r],
                      j < k
               PROVE  book'[r][j].id < book'[r][k].id
    BY DEF ArrivalOrder
  <2>1. old(r, j) < old(r, k)
    BY <1>1 DEF OldPosition, old
  <2> QED
    BY <1>1, <2>1 DEF ArrivalOrder, BookInv, SameTerms
<1>5. OneHome'
  BY <1>1 DEF OneHome, BookInv, SameTerms
<1>6. NeverLocked'
  <2> SUFFICES ASSUME NEW o \in AllResting', NEW p \in AllResting',
                      o.instrument = p.instrument, o.price = p.price
               PROVE  o.type = p.type
    BY DEF NeverLocked
  <2>1. PICK r \in Queues : \E j \in DOMAIN book'[r] : o = book'[r][j]
    BY DEF AllResting, RestingIn
  <2>2. PICK t \in Queues : \E k \in DOMAIN book'[t] : p = book'[t][k]
    BY DEF AllResting, RestingIn
  <2>3. PICK j \in DOMAIN book'[r] : o = book'[r][j]
    BY <2>1
  <2>4. PICK k \in DOMAIN book'[t] : p = book'[t][k]
    BY <2>2
  <2>5. book[r][old(r, j)] \in AllResting /\ book[t][old(t, k)] \in AllResting
    BY <1>1, RestingIsResting
  <2> QED
    BY <1>1, <2>3, <2>4, <2>5 DEF NeverLocked, BookInv, SameTerms
<1> QED
  BY <1>2, <1>3, <1>4, <1>5, <1>6 DEF BookInv

LEMMA UnlinkedQueue ==
  ASSUME NEW queue \in Seq(Order), NEW i \in 1 .. Len(queue)
  PROVE  /\ Unlinked(queue, i) \in Seq(Order)
         /\ Len(Unlinked(queue, i)) = Len(queue) - 1
         /\ \A j \in 1 .. Len(queue) - 1 :
              Unlinked(queue, i)[j] = IF j < i THEN queue[j] ELSE queue[j + 1]
  BY RemoveAtProperties DEF Unlinked

(* removeNode thins the book out at one position.                          *)
LEMMA UnlinkingThins ==
  ASSUME book \in [Queues -> Seq(Order)],
         NEW q \in Queues, NEW i \in 1 .. Len(book[q]),
         book' = [book EXCEPT ![q] = Unlinked(book[q], i)],
         \A r \in Queues : \A j \in 1 .. Len(book[r]) : book[r][j].quantity > 0
  PROVE  /\ book' \in [Queues -> Seq(Order)]
         /\ Thinned(book', book, q, i)
         /\ Len(book'[q]) = Len(book[q]) - 1
         /\ \A j \in 1 .. i - 1 : book'[q][j] = book[q][j]
<1>1. /\ book[q] \in Seq(Order)
      /\ Len(book[q]) \in Nat
  BY BookDomain
<1>2. /\ Unlinked(book[q], i) \in Seq(Order)
      /\ Len(Unlinked(book[q], i)) = Len(book[q]) - 1
      /\ \A j \in 1 .. Len(book[q]) - 1 :
           Unlinked(book[q], i)[j] = IF j < i THEN book[q][j] ELSE book[q][j + 1]
  BY <1>1, UnlinkedQueue
<1>3. book' \in [Queues -> Seq(Order)] /\ book'[q] = Unlinked(book[q], i)
  BY <1>2
<1>4. ASSUME NEW r \in Queues, NEW j \in 1 .. Len(book'[r])
      PROVE  /\ OldPosition(r, j, q, i) \in 1 .. Len(book[r])
             /\ SameTerms(book'[r][j], book[r][OldPosition(r, j, q, i)])
             /\ book'[r][j].quantity > 0
  <2>1. CASE r # q
    <3>1. book'[r] = book[r]
      BY <2>1
    <3> QED
      BY <2>1, <3>1 DEF OldPosition, SameTerms
  <2>2. CASE r = q
    <3>1. j \in 1 .. Len(book[q]) - 1
      BY <2>2, <1>2, <1>3
    <3>2. book'[r][j] = IF j < i THEN book[q][j] ELSE book[q][j + 1]
      BY <2>2, <3>1, <1>2, <1>3
    <3>3. CASE j < i
      BY <2>2, <3>1, <3>2, <3>3, <1>1 DEF OldPosition, SameTerms
    <3>4. CASE ~(j < i)
      BY <2>2, <3>1, <3>2, <3>4, <1>1 DEF OldPosition, SameTerms
    <3> QED
      BY <3>3, <3>4
  <2> QED
    BY <2>1, <2>2
<1>5. \A j \in 1 .. i - 1 : book'[q][j] = book[q][j]
  BY <1>1, <1>2, <1>3
<1> QED
  BY <1>2, <1>3, <1>4, <1>5 DEF Thinned

(* A step that keeps every order where it is thins the book out nowhere.   *)
LEMMA RewritingThins ==
  ASSUME NEW b \in [Queues -> Seq(Order)], NEW c \in [Queues -> Seq(Order)],
         NEW q \in Queues,
         \A r \in Queues :
           /\ Len(c[r]) = Len(b[r])
           /\ \A j \in 1 .. Len(b[r]) : SameTerms(c[r][j], b[r][j]) /\ c[r][j].quantity > 0
  PROVE  Thinned(c, b, q, Len(b[q]) + 1) /\ Len(b[q]) + 1 \in Nat
<1>1. Len(b[q]) \in Nat
  BY BookDomain
<1>2. ASSUME NEW r \in Queues, NEW j \in 1 .. Len(c[r])
      PROVE  OldPosition(r, j, q, Len(b[q]) + 1) = j
  BY <1>1 DEF OldPosition
<1> QED
  BY <1>1, <1>2 DEF Thinned

(* append adds the youngest order to its own queue, when nothing in the    *)
(* opposite queue crosses it.                                              *)
LEMMA LinkingKeepsBookInv ==
  ASSUME book \in [Queues -> Seq(Order)], BookInv,
         NEW o \in Order, o.quantity > 0,
         \A q \in Queues : \A i \in DOMAIN book[q] : book[q][i].id < o.id,
         \A i \in DOMAIN book[OppList(o)] : ~Crosses(book[OppList(o)][i], o),
         book' = [book EXCEPT ![OwnList(o)] = Linked(book[OwnList(o)], o)]
  PROVE  book' \in [Queues -> Seq(Order)] /\ BookInv'
<1> DEFINE q == OwnList(o)
           n == Len(book[q]) + 1
<1>1. /\ q \in Queues /\ OppList(o) \in Queues /\ q # OppList(o)
      /\ o.id \in Int
  BY OrderFields
<1>2. book[q] \in Seq(Order) /\ Len(book[q]) \in Nat /\ DOMAIN book[q] = 1 .. Len(book[q])
  BY <1>1, BookDomain
<1>3. /\ Linked(book[q], o) \in Seq(Order)
      /\ Len(Linked(book[q], o)) = n
      /\ \A i \in 1 .. Len(book[q]) : Linked(book[q], o)[i] = book[q][i]
      /\ Linked(book[q], o)[n] = o
  BY <1>2, AppendProperties DEF Linked
<1>4. book' \in [Queues -> Seq(Order)] /\ book'[q] = Linked(book[q], o)
  BY <1>1, <1>3
<1>5. DOMAIN book'[q] = 1 .. n
  BY <1>1, <1>3, <1>4, BookDomain
<1> HIDE DEF q, n
(* Whatever rests afterwards is o at the tail of q, or rested before.      *)
<1>6. ASSUME NEW r \in Queues, NEW i \in DOMAIN book'[r]
      PROVE  \/ r = q /\ i = n /\ book'[r][i] = o
             \/ i \in DOMAIN book[r] /\ book'[r][i] = book[r][i] /\ (r = q => i < n)
  <2>1. CASE r # q
    <3>1. book'[r] = book[r]
      BY <2>1 DEF q
    <3> QED
      BY <2>1, <3>1
  <2>2. CASE r = q
    BY <2>2, <1>2, <1>3, <1>4, <1>5 DEF n
  <2> QED
    BY <2>1, <2>2
<1>7. ASSUME NEW r \in Queues, NEW i \in DOMAIN book[r]
      PROVE  book[r][i] \in Order /\ book[r][i].id \in Int
  BY BookDomain, OrderFields
<1>8. Filed'
  BY <1>6 DEF Filed, BookInv, q
<1>9. Open'
  BY <1>6 DEF Open, BookInv
<1>10. ArrivalOrder'
  <2> SUFFICES ASSUME NEW r \in Queues, NEW i \in DOMAIN book'[r], NEW j \in DOMAIN book'[r],
                      i < j
               PROVE  book'[r][i].id < book'[r][j].id
    BY DEF ArrivalOrder
  <2>1. i \in Int /\ j \in Int
    BY <1>4, BookDomain
  <2>2. n \in Int
    BY <1>2 DEF n
  <2>3. CASE r = q /\ i = n
    BY <2>1, <2>2, <2>3, <1>5
  <2>4. CASE ~(r = q /\ i = n) /\ r = q /\ j = n
    BY <2>4, <1>6
  <2>5. CASE ~(r = q /\ i = n) /\ ~(r = q /\ j = n)
    BY <2>5, <1>6 DEF ArrivalOrder, BookInv
  <2> QED
    BY <2>3, <2>4, <2>5
<1>11. OneHome'
  BY <1>1, <1>6, <1>7 DEF OneHome, BookInv
<1>12. NeverLocked'
  <2> SUFFICES ASSUME NEW p \in AllResting', NEW s \in AllResting',
                      p.instrument = s.instrument, p.price = s.price
               PROVE  p.type = s.type
    BY DEF NeverLocked
  <2>1. ASSUME NEW t \in AllResting'
        PROVE  t = o \/ t \in AllResting
    <3>1. PICK r \in Queues : \E i \in DOMAIN book'[r] : t = book'[r][i]
      BY DEF AllResting, RestingIn
    <3> QED
      BY <3>1, <1>6, RestingIsResting
  <2>2. ASSUME NEW t \in AllResting, t.instrument = o.instrument, t.price = o.price
        PROVE  t.type = o.type
    <3>1. PICK r \in Queues : \E i \in DOMAIN book[r] : t = book[r][i]
      BY DEF AllResting, RestingIn
    <3>2. PICK i \in DOMAIN book[r] : t = book[r][i]
      BY <3>1
    <3>3. t \in Order /\ OwnList(t) = r
      BY <3>2, <1>7 DEF Filed, BookInv
    <3>4. r # OppList(o)
      BY <3>2, <2>2 DEF Crosses
    <3> QED
      BY <3>3, <3>4, <2>2, OrderFields DEF OwnList, OppList, OppositeSide
  <2> QED
    BY <2>1, <2>2 DEF NeverLocked, BookInv
<1> QED
  BY <1>4, <1>8, <1>9, <1>10, <1>11, <1>12 DEF BookInv
-----------------------------------------------------------------------------
(* The state addOrder's loop body starts from.                             *)
LEMMA WalkingFacts ==
  ASSUME IndInv, Walking
  PROVE  /\ ord \in Order
         /\ ord.quantity \in Nat /\ ord.quantity > 0
         /\ OppList(ord) \in Queues
         /\ cur \in 1 .. Len(book[OppList(ord)])
         /\ Len(book[OppList(ord)]) \in Nat
         /\ DOMAIN book[OppList(ord)] = 1 .. Len(book[OppList(ord)])
         /\ Resting = book[OppList(ord)][cur]
         /\ Resting \in Order
         /\ Resting.quantity \in Nat /\ Resting.quantity > 0
<1>1. ord \in Order /\ book \in [Queues -> Seq(Order)]
  BY DEF IndInv, TypeOK, Walking
<1>2. OppList(ord) \in Queues /\ ord.quantity \in Nat
  BY <1>1, OrderFields
<1>3. cur \in 1 .. Len(book[OppList(ord)]) + 1 /\ cur <= Len(book[OppList(ord)])
  BY DEF IndInv, PassedDoNotCross, Walking
<1>4. /\ Len(book[OppList(ord)]) \in Nat
      /\ DOMAIN book[OppList(ord)] = 1 .. Len(book[OppList(ord)])
  BY <1>1, <1>2, BookDomain
<1>5. cur \in 1 .. Len(book[OppList(ord)])
  BY <1>3, <1>4
<1>6. Resting \in Order
  BY <1>1, <1>2, <1>5, BookDomain DEF Resting
<1>7. Resting.quantity > 0
  BY <1>2, <1>4, <1>5 DEF IndInv, Open, Resting
<1> QED
  BY <1>1, <1>2, <1>4, <1>5, <1>6, <1>7, OrderFields DEF Walking, Resting

(* The quantity of an execution: positive, and no more than either has.    *)
LEMMA ExecutedQuantityBounds ==
  ASSUME NEW o, NEW p, o.quantity \in Nat, p.quantity \in Nat,
         o.quantity > 0, p.quantity > 0
  PROVE  /\ ExecutedQuantity(o, p) \in Nat
         /\ ExecutedQuantity(o, p) > 0
         /\ ExecutedQuantity(o, p) <= o.quantity
         /\ ExecutedQuantity(o, p) <= p.quantity
         /\ ExecutedQuantity(o, p) = o.quantity \/ ExecutedQuantity(o, p) = p.quantity
  BY DEF ExecutedQuantity

(* An execution changes the type of nothing but the book's own state.      *)
LEMMA TradeTypes ==
  ASSUME IndInv, Walking, NEW qty, qty = ExecutedQuantity(Resting, ord), Trade(qty)
  PROVE  /\ ord' \in Order
         /\ ord' = [ord EXCEPT !.quantity = ord.quantity - qty]
         /\ ord'.quantity = ord.quantity - qty
         /\ OppList(ord') = OppList(ord) /\ OwnList(ord') = OwnList(ord)
         /\ ord'.id = ord.id /\ ord'.price = ord.price
         /\ ord' # NoOrder
         /\ cap' \in Nat
         /\ fills' \in Seq(Fill)
         /\ next_order_id' \in 0 .. MaxOrders
         /\ placed' \in [OrderIds -> Nat]
         /\ executed' \in [OrderIds -> Nat]
         /\ withdrawn' \in [OrderIds -> Nat]
<1>1. TypeOK
  BY DEF IndInv
<1>2. /\ qty \in Nat /\ qty > 0 /\ qty <= ord.quantity
      /\ ord.quantity \in Nat
  BY WalkingFacts, ExecutedQuantityBounds
<1>3. ord \in Order /\ Resting \in Order
  BY WalkingFacts
<1>4. /\ ord' = [ord EXCEPT !.quantity = ord.quantity - qty]
      /\ ord.quantity - qty \in Nat
  BY <1>2 DEF Trade
<1>5. /\ ord' \in Order
      /\ ord'.quantity = ord.quantity - qty
      /\ ord'.id = ord.id /\ ord'.price = ord.price
      /\ ord'.type = ord.type /\ ord'.instrument = ord.instrument
  BY <1>3, <1>4 DEF Order
<1>6. OppList(ord') = OppList(ord) /\ OwnList(ord') = OwnList(ord) /\ ord' # NoOrder
  BY <1>5, OrderAssumption DEF OppList, OwnList
<1>7. cap' \in Nat
  BY <1>1, CapacityAssumption DEF Trade, CapacityAfterRealloc, TypeOK
<1>8. FillOf(Resting, ord, qty) \in Fill
  BY <1>2, <1>3, OrderFields DEF FillOf, Fill
<1>9. fills' \in Seq(Fill)
  BY <1>1, <1>8, AppendProperties DEF Trade, Recorded, TypeOK
<1>10. executed' \in [OrderIds -> Nat]
  <2>1. ord.id \in OrderIds /\ Resting.id \in OrderIds
    BY <1>3, OrderFields
  <2>2. executed' = [executed EXCEPT ![ord.id] = @ + qty, ![Resting.id] = @ + qty]
    BY DEF Trade
  <2>3. executed \in [OrderIds -> Nat]
    BY <1>1 DEF TypeOK
  <2> QED
    BY <1>2, <2>1, <2>2, <2>3
<1> QED
  BY <1>1, <1>4, <1>5, <1>6, <1>7, <1>9, <1>10 DEF Trade, TypeOK

(* Thinning the book out keeps Issued when no order arrives.               *)
LEMMA ThinningKeepsIssued ==
  ASSUME book \in [Queues -> Seq(Order)], book' \in [Queues -> Seq(Order)],
         Issued, next_order_id' = next_order_id,
         ord' = NoOrder \/ (ord # NoOrder /\ ord'.id = ord.id),
         NEW q \in Queues, NEW i \in Nat, Thinned(book', book, q, i)
  PROVE  Issued'
<1>1. ASSUME NEW r \in Queues, NEW j \in DOMAIN book'[r]
      PROVE  \E k \in DOMAIN book[r] : book'[r][j].id = book[r][k].id
  <2>1. j \in 1 .. Len(book'[r]) /\ DOMAIN book[r] = 1 .. Len(book[r])
    BY BookDomain
  <2> QED
    BY <2>1 DEF Thinned, SameTerms
<1> QED
  BY <1>1 DEF Issued
LEMMA IndInvParts ==
  IndInv <=> TypeOK /\ BookInv /\ Issued /\ PassedDoNotCross
  BY DEF IndInv, BookInv

(* The initial book satisfies the inductive invariant.                     *)
LEMMA InitIndInv == Init => IndInv
<1> SUFFICES ASSUME Init PROVE IndInv
  OBVIOUS
<1>1. TypeOK
  BY BoundAssumption, EmptySeq DEF Init, TypeOK
<1>2. \A q \in Queues : DOMAIN book[q] = {}
  BY DEF Init
<1>3. AllResting = {}
  BY <1>2 DEF AllResting, RestingIn
<1>4. BookInv
  BY <1>2, <1>3 DEF BookInv, Filed, Open, ArrivalOrder, OneHome, NeverLocked
<1>5. Issued /\ PassedDoNotCross
  BY <1>2 DEF Init, Issued, PassedDoNotCross
<1> QED
  BY <1>1, <1>4, <1>5, IndInvParts

LEMMA SameBook ==
  ASSUME book' = book, BookInv
  PROVE  BookInv'
<1>1. Filed' /\ Open' /\ ArrivalOrder' /\ OneHome'
  BY DEF BookInv, Filed, Open, ArrivalOrder, OneHome
<1>2. AllResting' = AllResting
  BY DEF AllResting, RestingIn
<1> QED
  BY <1>1, <1>2 DEF BookInv, NeverLocked

LEMMA PlaceOrderKeepsIndInv ==
  ASSUME IndInv, NEW fd \in Fds, NEW side \in Sides, NEW listing \in Listings,
         NEW quantity \in Quantities,
         PlaceOrder(fd, side, listing[1], quantity, listing[2])
  PROVE  IndInv'
<1>1. /\ listing[1] \in Instruments /\ listing[2] \in Nat
      /\ quantity \in Nat
  BY ListingAssumption, QuantityAssumption
<1>2. next_order_id \in OrderIds /\ next_order_id' \in 0 .. MaxOrders
  BY BoundAssumption DEF IndInv, TypeOK, OrderIds, PlaceOrder
<1>3. ord' \in Order /\ ord'.id = next_order_id
  BY <1>1, <1>2 DEF PlaceOrder, Order
<1>4. TypeOK'
  <2>1. placed' \in [OrderIds -> Nat]
    BY <1>1, <1>2 DEF IndInv, TypeOK, PlaceOrder
  <2>2. fills' \in Seq(Fill) /\ cur' \in Nat /\ cap' \in Nat
    BY EmptySeq DEF PlaceOrder
  <2> QED
    BY <1>2, <1>3, <2>1, <2>2 DEF IndInv, TypeOK, PlaceOrder
<1>5. BookInv'
  BY SameBook, IndInvParts DEF PlaceOrder
<1>6. Issued'
  <2>1. ASSUME NEW q \in Queues, NEW i \in DOMAIN book[q]
        PROVE  book[q][i].id \in Int /\ book[q][i].id < next_order_id
    BY BookDomain, OrderFields DEF IndInv, TypeOK, Issued
  <2>2. book' = book /\ next_order_id' = next_order_id + 1 /\ next_order_id \in Int
    BY DEF PlaceOrder, IndInv, TypeOK
  <2> QED
    BY <1>3, <2>1, <2>2 DEF Issued
<1>7. PassedDoNotCross'
  <2>1. OppList(ord') \in Queues
    BY <1>3, OrderFields
  <2>2. Len(book'[OppList(ord')]) \in Nat
    BY <2>1, <1>4, BookDomain DEF TypeOK
  <2> QED
    BY <2>2 DEF PassedDoNotCross, PlaceOrder
<1> QED
  BY <1>4, <1>5, <1>6, <1>7, IndInvParts DEF IndInv, BookInv

LEMMA SkipKeepsIndInv ==
  ASSUME IndInv, Skip
  PROVE  IndInv'
<1>1. Walking
  BY DEF Skip
<1>2. /\ ord \in Order /\ OppList(ord) \in Queues
      /\ cur \in 1 .. Len(book[OppList(ord)]) /\ Len(book[OppList(ord)]) \in Nat
      /\ Resting = book[OppList(ord)][cur]
  BY <1>1, WalkingFacts
<1>3. TypeOK'
  BY <1>2 DEF IndInv, TypeOK, Skip, history
<1>4. BookInv'
  BY SameBook, IndInvParts DEF Skip
<1>5. Issued'
  BY DEF IndInv, Issued, Skip
<1>6. PassedDoNotCross'
  <2>1. \A i \in 1 .. cur - 1 : ~Crosses(book[OppList(ord)][i], ord)
    BY <1>1 DEF IndInv, PassedDoNotCross, Walking
  <2>2. ~Crosses(book[OppList(ord)][cur], ord)
    BY <1>2 DEF Skip
  <2>3. book' = book /\ ord' = ord /\ cur' = cur + 1
    BY DEF Skip
  <2>4. \A i \in 1 .. cur' - 1 : ~Crosses(book[OppList(ord)][i], ord)
    BY <1>2, <2>1, <2>2, <2>3
  <2> QED
    BY <1>2, <2>3, <2>4 DEF PassedDoNotCross
<1> QED
  BY <1>3, <1>4, <1>5, <1>6, IndInvParts DEF IndInv, BookInv

(* Either execution only thins the opposite queue out.                     *)
LEMMA ExecuteAllThins ==
  ASSUME IndInv, ExecuteAll
  PROVE  /\ book' \in [Queues -> Seq(Order)]
         /\ Thinned(book', book, OppList(ord), cur) /\ cur \in Nat
         /\ Len(book'[OppList(ord)]) = Len(book[OppList(ord)]) - 1
         /\ \A j \in 1 .. cur - 1 : book'[OppList(ord)][j] = book[OppList(ord)][j]
<1> DEFINE q == OppList(ord)
<1>1. Walking /\ book' = [book EXCEPT ![q] = Unlinked(book[q], cur)]
  BY DEF ExecuteAll
<1>2. /\ q \in Queues /\ cur \in 1 .. Len(book[q]) /\ Len(book[q]) \in Nat
      /\ cur \in Nat
  BY <1>1, WalkingFacts
<1>3. /\ book \in [Queues -> Seq(Order)]
      /\ \A r \in Queues : \A j \in 1 .. Len(book[r]) : book[r][j].quantity > 0
  BY BookDomain DEF IndInv, TypeOK, Open
<1> HIDE DEF q
<1>4. /\ book' \in [Queues -> Seq(Order)]
      /\ Thinned(book', book, q, cur)
      /\ Len(book'[q]) = Len(book[q]) - 1
      /\ \A j \in 1 .. cur - 1 : book'[q][j] = book[q][j]
  BY <1>1, <1>2, <1>3, UnlinkingThins
<1> QED
  BY <1>2, <1>4 DEF q

LEMMA ExecutePartThins ==
  ASSUME IndInv, ExecutePart
  PROVE  /\ book' \in [Queues -> Seq(Order)]
         /\ Thinned(book', book, OppList(ord), Len(book[OppList(ord)]) + 1)
         /\ Len(book[OppList(ord)]) + 1 \in Nat
         /\ ExecutedQuantity(Resting, ord) = ord.quantity
<1> DEFINE q == OppList(ord)
           qty == ExecutedQuantity(Resting, ord)
           left == [Resting EXCEPT !.quantity = Resting.quantity - qty]
<1>1. /\ Walking /\ qty < Resting.quantity
      /\ book' = [book EXCEPT ![q] = [book[q] EXCEPT ![cur] = left]]
  BY DEF ExecutePart, Resting
<1>2. /\ q \in Queues /\ cur \in 1 .. Len(book[q]) /\ Len(book[q]) \in Nat
      /\ Resting = book[q][cur] /\ Resting \in Order /\ Resting.quantity \in Nat
  BY <1>1, WalkingFacts
<1>3. /\ book \in [Queues -> Seq(Order)]
      /\ \A r \in Queues : \A j \in 1 .. Len(book[r]) : book[r][j].quantity > 0
  BY BookDomain DEF IndInv, TypeOK, Open
<1>4. qty \in Nat /\ qty = ord.quantity
  BY <1>1, WalkingFacts, ExecutedQuantityBounds
<1>5. left \in Order /\ SameTerms(left, Resting) /\ left.quantity > 0
  <2>1. Resting.quantity - qty \in Nat /\ Resting.quantity - qty > 0
    BY <1>1, <1>2, <1>4
  <2> HIDE DEF qty
  <2> QED
    BY <2>1, <1>2 DEF Order, SameTerms
<1> HIDE DEF q, qty, left
<1>6. book[q] \in Seq(Order)
  BY <1>2, <1>3
<1>7. /\ [book[q] EXCEPT ![cur] = left] \in Seq(Order)
      /\ Len([book[q] EXCEPT ![cur] = left]) = Len(book[q])
      /\ \A j \in 1 .. Len(book[q]) :
           [book[q] EXCEPT ![cur] = left][j] = IF j = cur THEN left ELSE book[q][j]
  BY <1>2, <1>5, <1>6, ExceptSeq
<1>8. book' \in [Queues -> Seq(Order)]
  BY <1>1, <1>3, <1>7
<1>9. ASSUME NEW r \in Queues
      PROVE  /\ Len(book'[r]) = Len(book[r])
             /\ \A j \in 1 .. Len(book[r]) :
                  SameTerms(book'[r][j], book[r][j]) /\ book'[r][j].quantity > 0
  <2>1. CASE r = q
    BY <2>1, <1>1, <1>2, <1>3, <1>5, <1>7 DEF SameTerms
  <2>2. CASE r # q
    <3>1. book'[r] = book[r]
      BY <2>2, <1>1
    <3> QED
      BY <3>1, <1>3 DEF SameTerms
  <2> QED
    BY <2>1, <2>2
<1>10. Thinned(book', book, q, Len(book[q]) + 1) /\ Len(book[q]) + 1 \in Nat
  BY <1>2, <1>3, <1>8, <1>9, RewritingThins
<1> QED
  BY <1>4, <1>8, <1>10 DEF q, qty

(* What an execution keeps, whether or not the resting order is used up.   *)
LEMMA ExecutionKeeps ==
  ASSUME IndInv, Walking, NEW qty, qty = ExecutedQuantity(Resting, ord), Trade(qty),
         book' \in [Queues -> Seq(Order)], cur' \in Nat,
         NEW i \in Nat, Thinned(book', book, OppList(ord), i)
  PROVE  TypeOK' /\ BookInv' /\ Issued'
<1>1. /\ OppList(ord) \in Queues
      /\ ord # NoOrder
      /\ book \in [Queues -> Seq(Order)] /\ BookInv /\ Issued
  BY WalkingFacts, IndInvParts DEF TypeOK, Walking
<1>2. /\ ord' \in Order /\ ord'.id = ord.id
      /\ cap' \in Nat /\ fills' \in Seq(Fill)
      /\ next_order_id' \in 0 .. MaxOrders
      /\ placed' \in [OrderIds -> Nat] /\ executed' \in [OrderIds -> Nat]
      /\ withdrawn' \in [OrderIds -> Nat]
  BY TradeTypes
<1>3. TypeOK'
  BY <1>2 DEF TypeOK
<1>4. BookInv'
  BY <1>1, ThinningKeepsBookInv
<1>5. next_order_id' = next_order_id
  BY DEF Trade
<1>6. Issued'
  BY <1>1, <1>2, <1>5, ThinningKeepsIssued
<1> QED
  BY <1>3, <1>4, <1>6

LEMMA ExecuteAllKeepsIndInv ==
  ASSUME IndInv, ExecuteAll
  PROVE  IndInv'
<1> DEFINE q == OppList(ord)
           qty == ExecutedQuantity(Resting, ord)
<1>1. Walking /\ Trade(qty) /\ cur' = cur
  BY DEF ExecuteAll
<1>2. /\ cur \in 1 .. Len(book[q]) /\ Len(book[q]) \in Nat
      /\ book' \in [Queues -> Seq(Order)] /\ Thinned(book', book, q, cur) /\ cur \in Nat
      /\ Len(book'[q]) = Len(book[q]) - 1
      /\ \A j \in 1 .. cur - 1 : book'[q][j] = book[q][j]
  BY <1>1, WalkingFacts, ExecuteAllThins
<1>3. TypeOK' /\ BookInv' /\ Issued'
  BY <1>1, <1>2, ExecutionKeeps
<1>4. /\ ord'.price = ord.price
      /\ OppList(ord') = q
  BY <1>1, TradeTypes
<1> HIDE DEF q
<1>5. \A i \in 1 .. cur - 1 : ~Crosses(book'[q][i], ord')
  <2>1. \A i \in 1 .. cur - 1 : ~Crosses(book[q][i], ord)
    BY <1>1 DEF IndInv, PassedDoNotCross, Walking, q
  <2> QED
    BY <2>1, <1>2, <1>4 DEF Crosses
<1>6. cur' \in 1 .. Len(book'[q]) + 1
  BY <1>1, <1>2
<1>7. PassedDoNotCross'
  BY <1>1, <1>4, <1>5, <1>6 DEF PassedDoNotCross
<1> QED
  BY <1>3, <1>7, IndInvParts DEF IndInv, BookInv

LEMMA ExecutePartKeepsIndInv ==
  ASSUME IndInv, ExecutePart
  PROVE  IndInv'
<1> DEFINE qty == ExecutedQuantity(Resting, ord)
<1>1. Walking /\ Trade(qty) /\ cur' = cur + 1
  BY DEF ExecutePart
<1>2. /\ book' \in [Queues -> Seq(Order)]
      /\ Thinned(book', book, OppList(ord), Len(book[OppList(ord)]) + 1)
      /\ Len(book[OppList(ord)]) + 1 \in Nat
      /\ qty = ord.quantity
  BY ExecutePartThins
<1>3. cur' \in Nat
  BY <1>1 DEF IndInv, TypeOK
<1>4. TypeOK' /\ BookInv' /\ Issued'
  BY <1>1, <1>2, <1>3, ExecutionKeeps
<1>5. ord'.quantity = 0
  BY <1>1, <1>2, TradeTypes, WalkingFacts
<1>6. PassedDoNotCross'
  BY <1>5 DEF PassedDoNotCross
<1> QED
  BY <1>4, <1>6, IndInvParts DEF IndInv, BookInv

LEMMA ReturnKeepsIndInv ==
  ASSUME IndInv, Return
  PROVE  IndInv'
<1>1. /\ TypeOK /\ BookInv /\ Issued
      /\ ord \in Order /\ ord.quantity \in Nat
      /\ book \in [Queues -> Seq(Order)]
  <2>1. TypeOK /\ BookInv /\ Issued
    BY IndInvParts
  <2>2. ord \in Order /\ book \in [Queues -> Seq(Order)]
    BY <2>1 DEF Return, TypeOK
  <2> QED
    BY <2>1, <2>2, OrderFields
<1>2. ord' = NoOrder /\ cur' = 0 /\ fills' = <<>> /\ cap' = 0
      /\ next_order_id' = next_order_id
      /\ placed' = placed /\ executed' = executed /\ withdrawn' = withdrawn
  BY DEF Return, history
<1>3. book' \in [Queues -> Seq(Order)] /\ BookInv'
      /\ \A q \in Queues : \A i \in DOMAIN book'[q] : book'[q][i].id < next_order_id
  <2>1. CASE ord.quantity > 0
    <3>1. book' = [book EXCEPT ![OwnList(ord)] = Linked(book[OwnList(ord)], ord)]
      BY <2>1 DEF Return
    <3>2. \A q \in Queues : \A i \in DOMAIN book[q] : book[q][i].id < ord.id
      BY <1>1 DEF Issued, Return
    <3>3. \A i \in DOMAIN book[OppList(ord)] : ~Crosses(book[OppList(ord)][i], ord)
      <4>1. OppList(ord) \in Queues
        BY <1>1, OrderFields
      <4>2. /\ DOMAIN book[OppList(ord)] = 1 .. Len(book[OppList(ord)])
            /\ Len(book[OppList(ord)]) \in Nat
        BY <1>1, <4>1, BookDomain
      <4>3. /\ cur \in 1 .. Len(book[OppList(ord)]) + 1
            /\ \A i \in 1 .. cur - 1 : ~Crosses(book[OppList(ord)][i], ord)
        BY <2>1, IndInvParts DEF PassedDoNotCross, Return
      <4>4. ~(cur <= Len(book[OppList(ord)]))
        BY <2>1 DEF Return, Walking
      <4>5. cur - 1 = Len(book[OppList(ord)])
        BY <4>2, <4>3, <4>4
      <4> QED
        BY <4>2, <4>3, <4>5
    <3>4. book' \in [Queues -> Seq(Order)] /\ BookInv'
      BY <1>1, <2>1, <3>1, <3>2, <3>3, LinkingKeepsBookInv
    <3>5. ASSUME NEW q \in Queues, NEW i \in DOMAIN book'[q]
          PROVE  book'[q][i].id < next_order_id
      <4>1. OwnList(ord) \in Queues
        BY <1>1, OrderFields
      <4>2. book[OwnList(ord)] \in Seq(Order)
        BY <1>1, <4>1
      <4>3. CASE q # OwnList(ord)
        BY <4>3, <3>1, <1>1 DEF Issued
      <4>4. CASE q = OwnList(ord)
        <5>1. book'[q] = Append(book[q], ord)
          BY <4>1, <4>4, <3>1, <1>1 DEF Linked
        <5>2. i \in 1 .. Len(book[q]) + 1 /\ Len(book[q]) \in Nat
              /\ DOMAIN book[q] = 1 .. Len(book[q])
          BY <3>4, <4>2, <4>4, <5>1, <1>1, BookDomain, AppendProperties
        <5>3. CASE i = Len(book[q]) + 1
          BY <4>2, <4>4, <5>1, <5>3, <1>1, AppendProperties DEF Issued, Return
        <5>4. CASE i # Len(book[q]) + 1
          <6>1. i \in 1 .. Len(book[q])
            BY <5>2, <5>4
          <6>2. book'[q][i] = book[q][i]
            BY <4>2, <4>4, <5>1, <6>1, <1>1, AppendProperties
          <6> QED
            BY <5>2, <6>1, <6>2, <1>1 DEF Issued
        <5> QED
          BY <5>3, <5>4
      <4> QED
        BY <4>3, <4>4
    <3> QED
      BY <3>4, <3>5
  <2>2. CASE ~(ord.quantity > 0)
    <3>1. book' = book
      BY <2>2 DEF Return
    <3> QED
      BY <1>1, <3>1, SameBook DEF Issued
  <2> QED
    BY <2>1, <2>2
<1>4. TypeOK'
  BY <1>1, <1>2, <1>3, EmptySeq DEF TypeOK
<1>5. Issued' /\ PassedDoNotCross'
  BY <1>2, <1>3 DEF Issued, PassedDoNotCross
<1> QED
  BY <1>3, <1>4, <1>5, IndInvParts DEF IndInv, BookInv

LEMMA CancelOrderKeepsIndInv ==
  ASSUME IndInv, NEW id \in OrderIds, NEW fd \in Fds, CancelOrder(id, fd)
  PROVE  IndInv'
<1>1. /\ TypeOK /\ BookInv /\ Issued
      /\ book \in [Queues -> Seq(Order)]
      /\ \A r \in Queues : \A j \in 1 .. Len(book[r]) : book[r][j].quantity > 0
  BY IndInvParts, BookDomain DEF TypeOK, BookInv, Open
<1>2. PICK q \in Queues : \E i \in DOMAIN book[q] :
        /\ book' = [book EXCEPT ![q] = Unlinked(book[q], i)]
        /\ withdrawn' = [withdrawn EXCEPT ![id] = @ + book[q][i].quantity]
  BY DEF CancelOrder
<1>3. PICK i \in DOMAIN book[q] :
        /\ book' = [book EXCEPT ![q] = Unlinked(book[q], i)]
        /\ withdrawn' = [withdrawn EXCEPT ![id] = @ + book[q][i].quantity]
  BY <1>2
<1>4. i \in 1 .. Len(book[q]) /\ i \in Nat /\ book[q][i] \in Order
  BY <1>1, BookDomain
<1>5. book' \in [Queues -> Seq(Order)] /\ Thinned(book', book, q, i)
  BY <1>1, <1>3, <1>4, UnlinkingThins
<1>6. BookInv'
  BY <1>1, <1>4, <1>5, ThinningKeepsBookInv
<1>7. ord' = NoOrder /\ next_order_id' = next_order_id
  BY DEF CancelOrder
<1>8. Issued'
  BY <1>1, <1>4, <1>5, <1>7, ThinningKeepsIssued
<1>9. TypeOK'
  <2>1. withdrawn' \in [OrderIds -> Nat]
    BY <1>1, <1>3, <1>4, OrderFields DEF TypeOK
  <2> QED
    BY <1>1, <1>5, <2>1 DEF TypeOK, CancelOrder
<1>10. PassedDoNotCross'
  BY <1>7 DEF PassedDoNotCross
<1> QED
  BY <1>6, <1>8, <1>9, <1>10, IndInvParts DEF IndInv, BookInv

(* detachIn rewrites one field and moves nothing.                          *)
LEMMA DetachedProperties ==
  ASSUME NEW queue \in Seq(Order), NEW fd
  PROVE  /\ Detached(queue, fd) \in Seq(Order)
         /\ Len(Detached(queue, fd)) = Len(queue)
         /\ \A i \in 1 .. Len(queue) :
              /\ SameTerms(Detached(queue, fd)[i], queue[i])
              /\ Detached(queue, fd)[i].quantity = queue[i].quantity
<1>1. Len(queue) \in Nat /\ DOMAIN queue = 1 .. Len(queue)
  BY LenProperties
<1>2. ASSUME NEW i \in 1 .. Len(queue)
      PROVE  /\ Detached(queue, fd)[i] \in Order
             /\ SameTerms(Detached(queue, fd)[i], queue[i])
             /\ Detached(queue, fd)[i].quantity = queue[i].quantity
  <2>1. queue[i] \in Order
    BY ElementOfSeq
  <2>2. [queue[i] EXCEPT !.client_fd = NoFd] \in Order
    BY <2>1 DEF Order
  <2>3. Detached(queue, fd)[i] =
          IF queue[i].client_fd = fd THEN [queue[i] EXCEPT !.client_fd = NoFd] ELSE queue[i]
    BY <1>1 DEF Detached
  <2> QED
    BY <2>1, <2>2, <2>3 DEF SameTerms, Order
<1>3. Detached(queue, fd) \in [1 .. Len(queue) -> Order]
  BY <1>1, <1>2 DEF Detached
<1>4. Detached(queue, fd) \in Seq(Order) /\ Len(Detached(queue, fd)) = Len(queue)
  <2>1. Detached(queue, fd) \in Seq(Order)
    BY <1>1, <1>3, SeqDef
  <2>2. DOMAIN Detached(queue, fd) = 1 .. Len(queue)
    BY <1>3
  <2> QED
    BY <1>1, <2>1, <2>2, LenProperties
<1> QED
  BY <1>2, <1>4

LEMMA DetachClientOrdersKeepsIndInv ==
  ASSUME IndInv, NEW fd \in Fds, DetachClientOrders(fd)
  PROVE  IndInv'
<1>1. /\ TypeOK /\ BookInv /\ Issued
      /\ book \in [Queues -> Seq(Order)]
      /\ \A r \in Queues : \A j \in 1 .. Len(book[r]) : book[r][j].quantity > 0
  BY IndInvParts, BookDomain DEF TypeOK, BookInv, Open
<1>2. book' = [q \in Queues |-> Detached(book[q], fd)]
  BY DEF DetachClientOrders
<1>3. \A q \in Queues :
        /\ book'[q] \in Seq(Order)
        /\ Len(book'[q]) = Len(book[q])
        /\ \A j \in 1 .. Len(book[q]) :
             SameTerms(book'[q][j], book[q][j]) /\ book'[q][j].quantity > 0
  BY <1>1, <1>2, DetachedProperties
<1>4. book' \in [Queues -> Seq(Order)]
  BY <1>2, <1>3
<1>5. PICK q \in Queues : TRUE
  <2>1. <<"JNST", "BUY">> \in Queues
    BY DEF Queues, Instruments, Sides
  <2> QED
    BY <2>1
<1>6. Thinned(book', book, q, Len(book[q]) + 1) /\ Len(book[q]) + 1 \in Nat
  BY <1>1, <1>3, <1>4, RewritingThins
<1>7. BookInv'
  BY <1>1, <1>4, <1>6, ThinningKeepsBookInv
<1>8. ord' = NoOrder /\ next_order_id' = next_order_id
  BY DEF DetachClientOrders
<1>9. Issued'
  BY <1>1, <1>4, <1>6, <1>8, ThinningKeepsIssued
<1>10. TypeOK' /\ PassedDoNotCross'
  BY <1>1, <1>4, <1>8 DEF TypeOK, PassedDoNotCross, DetachClientOrders, history
<1> QED
  BY <1>7, <1>9, <1>10, IndInvParts DEF IndInv, BookInv

-----------------------------------------------------------------------------
LEMMA NextKeepsIndInv == IndInv /\ [Next]_vars => IndInv'
<1> SUFFICES ASSUME IndInv, [Next]_vars PROVE IndInv'
  OBVIOUS
<1>1. CASE \E fd \in Fds, side \in Sides, listing \in Listings, quantity \in Quantities :
             PlaceOrder(fd, side, listing[1], quantity, listing[2])
  BY <1>1, PlaceOrderKeepsIndInv
<1>2. CASE Skip
  BY <1>2, SkipKeepsIndInv
<1>3. CASE ExecuteAll
  BY <1>3, ExecuteAllKeepsIndInv
<1>4. CASE ExecutePart
  BY <1>4, ExecutePartKeepsIndInv
<1>5. CASE Return
  BY <1>5, ReturnKeepsIndInv
<1>6. CASE \E id \in OrderIds, fd \in Fds : CancelOrder(id, fd)
  BY <1>6, CancelOrderKeepsIndInv
<1>7. CASE \E fd \in Fds : DetachClientOrders(fd)
  BY <1>7, DetachClientOrdersKeepsIndInv
<1>8. CASE UNCHANGED vars
  <2>1. /\ book' = book /\ ord' = ord /\ cur' = cur /\ fills' = fills /\ cap' = cap
        /\ next_order_id' = next_order_id
        /\ placed' = placed /\ executed' = executed /\ withdrawn' = withdrawn
    BY <1>8 DEF vars, bookVars, history
  <2>2. TypeOK'
    BY <2>1, IndInvParts DEF TypeOK
  <2>3. BookInv'
    BY <2>1, IndInvParts, SameBook
  <2>4. Issued' /\ PassedDoNotCross'
    BY <2>1, IndInvParts DEF Issued, PassedDoNotCross
  <2> QED
    BY <2>2, <2>3, <2>4, IndInvParts DEF IndInv, BookInv
<1> QED
  BY <1>1, <1>2, <1>3, <1>4, <1>5, <1>6, <1>7, <1>8 DEF Next

(* The inductive invariant holds of every behaviour: types, the queue each *)
(* order is in, arrival order within it, and what addOrder's cursor has    *)
(* passed (orderbook.c:107-235).                                           *)
THEOREM IndInvHolds == Spec => []IndInv
  BY InitIndInv, NextKeepsIndInv, PTL DEF Spec

(* Whatever orders, cancellations and departures came before, two orders   *)
(* that could execute against each other never both rest.                  *)
THEOREM NeverLockedHolds == Spec => []NeverLocked
<1>1. IndInv => NeverLocked
  BY DEF IndInv
<1> QED
  BY <1>1, IndInvHolds, PTL
-----------------------------------------------------------------------------
(* Positions and identifiers of resting orders agree.                      *)
LEMMA SameIdSamePlace ==
  ASSUME IndInv, NEW q \in Queues, NEW i \in DOMAIN book[q],
         NEW o \in AllResting, o.id = book[q][i].id
  PROVE  o = book[q][i]
<1>1. PICK r \in Queues : \E j \in DOMAIN book[r] : o = book[r][j]
  BY DEF AllResting, RestingIn
<1>2. PICK j \in DOMAIN book[r] : o = book[r][j]
  BY <1>1
<1>3. r = q
  BY <1>2 DEF IndInv, OneHome
<1>4. i \in Int /\ j \in Int /\ book[q][i].id \in Int /\ book[q][j].id \in Int
  <2>1. book \in [Queues -> Seq(Order)]
    BY DEF IndInv, TypeOK
  <2>2. DOMAIN book[q] = 1 .. Len(book[q])
    BY <2>1, BookDomain
  <2>3. book[q][i] \in Order /\ book[q][j] \in Order
    BY <1>2, <1>3, <2>1, <2>2, BookDomain
  <2> QED
    BY <1>2, <1>3, <2>2, <2>3, OrderFields
<1>5. i = j
  BY <1>2, <1>3, <1>4 DEF IndInv, ArrivalOrder
<1> QED
  BY <1>2, <1>3, <1>5

(* An execution is with the oldest resting order of its price.             *)
LEMMA ExecutionTakesOldest ==
  ASSUME IndInv, Walking, NEW qty, qty = ExecutedQuantity(Resting, ord), Trade(qty),
         book' \in [Queues -> Seq(Order)], BookInv',
         NEW n \in Nat, Thinned(book', book, OppList(ord), n),
         NEW o \in AllResting, executed'[o.id] > executed[o.id],
         NEW p \in AllResting', p.price = o.price, OwnList(p) = OwnList(o)
  PROVE  o.id <= p.id
<1> DEFINE q == OppList(ord)
<1>1. /\ q \in Queues /\ cur \in DOMAIN book[q] /\ DOMAIN book[q] = 1 .. Len(book[q])
      /\ Len(book[q]) \in Nat /\ cur \in Int
      /\ Resting = book[q][cur] /\ ord \in Order /\ Resting \in Order
      /\ book \in [Queues -> Seq(Order)]
  BY WalkingFacts DEF IndInv, TypeOK
<1>2. o = Resting
  <2>1. PICK r \in Queues : \E j \in DOMAIN book[r] : o = book[r][j]
    BY DEF AllResting, RestingIn
  <2>2. PICK j \in DOMAIN book[r] : o = book[r][j]
    BY <2>1
  <2>3. o \in Order /\ o.id \in OrderIds /\ o.id \in Int /\ ord.id \in Int
    BY <1>1, <2>2, BookDomain, OrderFields
  <2>4. o.id < ord.id
    BY <2>2 DEF IndInv, Issued, Walking
  <2>5. executed' = [executed EXCEPT ![ord.id] = @ + qty, ![Resting.id] = @ + qty]
    BY DEF Trade
  <2>6. executed \in [OrderIds -> Nat]
    BY DEF IndInv, TypeOK
  <2>7. o.id = Resting.id
    <3> SUFFICES ASSUME o.id # Resting.id PROVE FALSE
      OBVIOUS
    <3>1. executed'[o.id] = executed[o.id]
      BY <2>3, <2>4, <2>5, <2>6
    <3> QED
      BY <2>3, <2>6, <3>1
  <2> QED
    BY <1>1, <2>7, SameIdSamePlace
<1>3. PICK r \in Queues : \E j \in DOMAIN book'[r] : p = book'[r][j]
  BY DEF AllResting, RestingIn
<1>4. PICK j \in DOMAIN book'[r] : p = book'[r][j]
  BY <1>3
<1>5. r = q
  <2>1. OwnList(p) = r
    BY <1>4 DEF BookInv, Filed
  <2>2. OwnList(o) = q
    BY <1>1, <1>2 DEF IndInv, Filed
  <2> QED
    BY <2>1, <2>2
<1>6. PICK k \in DOMAIN book[q] : SameTerms(p, book[q][k])
  <2>1. j \in 1 .. Len(book'[q])
    BY <1>1, <1>4, <1>5, BookDomain
  <2> QED
    BY <1>1, <1>4, <1>5, <2>1 DEF Thinned
<1>7. Crosses(book[q][k], ord)
  BY <1>2, <1>6 DEF Trade, Crosses, SameTerms
<1>8. cur <= k
  <2>1. \A l \in 1 .. cur - 1 : ~Crosses(book[q][l], ord)
    BY DEF IndInv, PassedDoNotCross, Walking
  <2> HIDE DEF q
  <2>2. k \in Int /\ k >= 1
    BY <1>1, <1>6
  <2>3. k \notin 1 .. cur - 1
    BY <1>7, <2>1
  <2> QED
    BY <1>1, <2>2, <2>3
<1> HIDE DEF q
<1>9. book[q][k].id \in Int /\ Resting.id \in Int /\ k \in Int
  <2>1. book[q][k] \in Order
    BY <1>1, <1>6, BookDomain
  <2>2. book[q][k].id \in Int /\ Resting.id \in Int
    BY <1>1, <2>1, OrderFields, Zenon
  <2>3. k \in Int
    BY <1>1, <1>6
  <2> QED
    BY <2>2, <2>3
<1>10. Resting.id <= book[q][k].id
  <2>1. CASE cur = k
    BY <2>1, <1>1, <1>9
  <2>2. CASE cur < k
    <3>1. book[q][cur].id < book[q][k].id
      BY <2>2, <1>1, <1>6 DEF IndInv, ArrivalOrder
    <3> QED
      BY <3>1, <1>1, <1>9
  <2> QED
    BY <2>1, <2>2, <1>1, <1>8, <1>9
<1> QED
  BY <1>2, <1>6, <1>10 DEF SameTerms

(* Time priority (orderbook.c:117-173): when a resting order executes, no  *)
(* older order of its side, instrument and price is left waiting.          *)
THEOREM NoOvertakingHolds == Spec => NoOvertaking
<1> DEFINE Fair(o) ==
             executed'[o.id] > executed[o.id] =>
               \A p \in AllResting' :
                 p.price = o.price /\ OwnList(p) = OwnList(o) => o.id <= p.id
<1>1. ASSUME IndInv, IndInv', [Next]_vars
      PROVE  [\A o \in AllResting : Fair(o)]_vars
  <2> SUFFICES ASSUME Next, NEW o \in AllResting, executed'[o.id] > executed[o.id]
               PROVE  \A p \in AllResting' :
                        p.price = o.price /\ OwnList(p) = OwnList(o) => o.id <= p.id
    BY <1>1
  <2>1. executed' # executed
    <3>1. PICK r \in Queues : \E j \in DOMAIN book[r] : o = book[r][j]
      BY DEF AllResting, RestingIn
    <3>2. o.id \in OrderIds
      BY <1>1, <3>1, BookDomain, OrderFields DEF IndInv, TypeOK
    <3>3. executed[o.id] \in Nat
      BY <1>1, <3>2 DEF IndInv, TypeOK
    <3> QED
      BY <3>3
  <2>2. CASE ExecuteAll
    <3>1. Walking /\ Trade(ExecutedQuantity(Resting, ord))
      BY <2>2 DEF ExecuteAll
    <3>2. /\ book' \in [Queues -> Seq(Order)] /\ cur \in Nat
          /\ Thinned(book', book, OppList(ord), cur)
      BY <1>1, <2>2, ExecuteAllThins
    <3>3. BookInv'
      BY <1>1 DEF IndInv, BookInv
    <3> QED
      BY <1>1, <3>1, <3>2, <3>3, ExecutionTakesOldest
  <2>3. CASE ExecutePart
    <3>1. Walking /\ Trade(ExecutedQuantity(Resting, ord))
      BY <2>3 DEF ExecutePart
    <3>2. /\ book' \in [Queues -> Seq(Order)] /\ Len(book[OppList(ord)]) + 1 \in Nat
          /\ Thinned(book', book, OppList(ord), Len(book[OppList(ord)]) + 1)
      BY <1>1, <2>3, ExecutePartThins
    <3>3. BookInv'
      BY <1>1 DEF IndInv, BookInv
    <3> QED
      BY <1>1, <3>1, <3>2, <3>3, ExecutionTakesOldest
  <2> QED
    BY <2>1, <2>2, <2>3 DEF Next, PlaceOrder, Skip, Return, CancelOrder, DetachClientOrders, history
<1> QED
  BY <1>1, IndInvHolds, PTL DEF Spec, NoOvertaking
-----------------------------------------------------------------------------
(* Once its owner has left an order can only be executed (orderbook.h:52): *)
(* whoever is given the descriptor next, no cancellation reaches it.       *)
THEOREM OrphansStayHolds == Spec => OrphansStay
<1>1. ASSUME IndInv, [Next]_vars
      PROVE  [\A o \in AllResting :
                o.client_fd = NoFd => withdrawn'[o.id] = withdrawn[o.id]]_vars
  <2> SUFFICES ASSUME Next, NEW o \in AllResting, o.client_fd = NoFd
               PROVE  withdrawn'[o.id] = withdrawn[o.id]
    BY <1>1
  <2>1. CASE \E id \in OrderIds, fd \in Fds : CancelOrder(id, fd)
    <3>1. PICK id \in OrderIds, fd \in Fds : CancelOrder(id, fd)
      BY <2>1
    <3>2. PICK q \in Queues : \E i \in DOMAIN book[q] :
            /\ FirstFound(q, i, id, fd)
            /\ withdrawn' = [withdrawn EXCEPT ![id] = @ + book[q][i].quantity]
      BY <3>1 DEF CancelOrder
    <3>3. PICK i \in DOMAIN book[q] :
            /\ FirstFound(q, i, id, fd)
            /\ withdrawn' = [withdrawn EXCEPT ![id] = @ + book[q][i].quantity]
      BY <3>2
    <3>4. book[q][i].id = id /\ book[q][i].client_fd = fd
      BY <3>3 DEF FirstFound, MayCancel
    <3>5. o.id # id
      <4> SUFFICES ASSUME o.id = id PROVE FALSE
        OBVIOUS
      <4>1. o = book[q][i]
        BY <1>1, <3>4, SameIdSamePlace
      <4> QED
        BY <3>4, <4>1, FdAssumption
    <3> QED
      BY <1>1, <3>3, <3>5 DEF IndInv, TypeOK
  <2> QED
    BY <2>1 DEF Next, PlaceOrder, Skip, ExecuteAll, ExecutePart, Trade, Return,
                DetachClientOrders, history
<1> QED
  BY <1>1, IndInvHolds, PTL DEF Spec, OrphansStay
-----------------------------------------------------------------------------
(* Conservation looks at the resting orders as a set.                      *)

(* Identifiers tell resting orders apart, and from the one being placed.   *)
LEMMA RestingFacts ==
  ASSUME IndInv
  PROVE  /\ \A o \in AllResting : o \in Order /\ o.id < next_order_id
         /\ \A o, p \in AllResting : o.id = p.id => o = p
         /\ ord # NoOrder => ord \in Order /\ ord.id < next_order_id
                             /\ \A o \in AllResting : o.id # ord.id
<1>1. book \in [Queues -> Seq(Order)]
  BY DEF IndInv, TypeOK
<1>2. ASSUME NEW o \in AllResting
      PROVE  \E q \in Queues : \E i \in DOMAIN book[q] :
               i \in 1 .. Len(book[q]) /\ o = book[q][i]
  <2>1. PICK q \in Queues : \E i \in DOMAIN book[q] : o = book[q][i]
    BY DEF AllResting, RestingIn
  <2>2. DOMAIN book[q] = 1 .. Len(book[q])
    BY <1>1, BookDomain
  <2> QED
    BY <2>1, <2>2
<1>3. \A o \in AllResting : o \in Order /\ o.id < next_order_id
  BY <1>1, <1>2, BookDomain DEF IndInv, Issued
<1>4. ASSUME NEW o \in AllResting, NEW p \in AllResting, o.id = p.id
      PROVE  o = p
  <2>1. PICK q \in Queues : \E i \in DOMAIN book[q] : p = book[q][i]
    BY <1>2
  <2>2. PICK i \in DOMAIN book[q] : p = book[q][i]
    BY <2>1
  <2> QED
    BY <1>4, <2>2, SameIdSamePlace
<1>5. ASSUME ord # NoOrder
      PROVE  /\ ord \in Order /\ ord.id < next_order_id
             /\ \A o \in AllResting : o.id # ord.id
  <2>1. ord \in Order /\ ord.id < next_order_id
    BY <1>5 DEF IndInv, TypeOK, Issued
  <2>2. ASSUME NEW o \in AllResting
        PROVE  o.id # ord.id
    <3>1. o.id < ord.id
      BY <1>2, <1>5 DEF IndInv, Issued
    <3>2. o.id \in Int /\ ord.id \in Int
      BY <1>3, <2>1, OrderFields
    <3> QED
      BY <3>1, <3>2
  <2> QED
    BY <2>1, <2>2
<1> QED
  BY <1>3, <1>4, <1>5

(* removeNode takes one order out of the book and no other.                *)
LEMMA UnlinkingResting ==
  ASSUME IndInv, NEW q \in Queues, NEW i \in DOMAIN book[q],
         book' = [book EXCEPT ![q] = Unlinked(book[q], i)]
  PROVE  AllResting' = AllResting \ {book[q][i]}
<1>1. /\ book \in [Queues -> Seq(Order)] /\ book[q] \in Seq(Order)
      /\ DOMAIN book[q] = 1 .. Len(book[q]) /\ Len(book[q]) \in Nat
      /\ i \in 1 .. Len(book[q])
  BY BookDomain DEF IndInv, TypeOK
<1>2. /\ Unlinked(book[q], i) \in Seq(Order)
      /\ Len(Unlinked(book[q], i)) = Len(book[q]) - 1
      /\ \A j \in 1 .. Len(book[q]) - 1 :
           Unlinked(book[q], i)[j] = IF j < i THEN book[q][j] ELSE book[q][j + 1]
  BY <1>1, UnlinkedQueue
<1>3. /\ book'[q] = Unlinked(book[q], i)
      /\ DOMAIN book'[q] = 1 .. Len(book[q]) - 1
      /\ \A r \in Queues : r # q => book'[r] = book[r]
  BY <1>1, <1>2, LenProperties
<1>4. ASSUME NEW o \in AllResting'
      PROVE  o \in AllResting /\ o # book[q][i]
  <2>1. PICK r \in Queues : \E j \in DOMAIN book'[r] : o = book'[r][j]
    BY DEF AllResting, RestingIn
  <2>2. PICK j \in DOMAIN book'[r] : o = book'[r][j]
    BY <2>1
  <2>3. CASE r # q
    <3>1. book'[r] = book[r]
      BY <1>3, <2>3
    <3>2. o \in AllResting
      BY <2>2, <3>1, RestingIsResting
    <3>3. OwnList(o) = r /\ OwnList(book[q][i]) = q
      BY <2>2, <3>1 DEF IndInv, Filed
    <3> QED
      BY <2>3, <3>2, <3>3
  <2>4. CASE r = q
    <3> DEFINE k == IF j < i THEN j ELSE j + 1
    <3>1. o = book[q][k] /\ k \in DOMAIN book[q] /\ k # i
      BY <1>1, <1>2, <1>3, <2>2, <2>4
    <3> HIDE DEF k
    <3>2. book[q][k].id # book[q][i].id
      <4>1. book[q][k].id \in Int /\ book[q][i].id \in Int
        BY <1>1, <3>1, BookDomain, OrderFields
      <4>2. k < i \/ i < k
        BY <1>1, <3>1
      <4>3. book[q][k].id < book[q][i].id \/ book[q][i].id < book[q][k].id
        BY <3>1, <4>2 DEF IndInv, ArrivalOrder
      <4> QED
        BY <4>1, <4>3
    <3> QED
      BY <3>1, <3>2, RestingIsResting
  <2> QED
    BY <2>3, <2>4
<1>5. ASSUME NEW o \in AllResting, o # book[q][i]
      PROVE  o \in AllResting'
  <2>1. PICK r \in Queues : \E j \in DOMAIN book[r] : o = book[r][j]
    BY DEF AllResting, RestingIn
  <2>2. PICK j \in DOMAIN book[r] : o = book[r][j]
    BY <2>1
  <2>3. \E k \in DOMAIN book'[r] : o = book'[r][k]
    <3>1. CASE r # q
      <4>1. book'[r] = book[r]
        BY <1>3, <3>1
      <4> QED
        BY <2>2, <4>1
    <3>2. CASE r = q
      <4> DEFINE k == IF j < i THEN j ELSE j - 1
      <4>1. j # i /\ j \in 1 .. Len(book[q])
        BY <1>1, <1>5, <2>2, <3>2
      <4>2. k \in 1 .. Len(book[q]) - 1 /\ j = IF k < i THEN k ELSE k + 1
        BY <1>1, <4>1
      <4> QED
        BY <1>2, <1>3, <2>2, <3>2, <4>1, <4>2
    <3> QED
      BY <3>1, <3>2
  <2> QED
    BY <2>3 DEF AllResting, RestingIn
<1> QED
  BY <1>4, <1>5
(* A partial execution replaces one order by what it has left.             *)
LEMMA RewritingResting ==
  ASSUME IndInv, NEW q \in Queues, NEW i \in DOMAIN book[q], NEW left,
         book' = [book EXCEPT ![q] = [book[q] EXCEPT ![i] = left]]
  PROVE  AllResting' = (AllResting \ {book[q][i]}) \cup {left}
<1>1. /\ book \in [Queues -> Seq(Order)] /\ DOMAIN book[q] = 1 .. Len(book[q])
      /\ Len(book[q]) \in Nat
  BY BookDomain DEF IndInv, TypeOK
<1>2. ASSUME NEW r \in Queues
      PROVE  /\ DOMAIN book'[r] = DOMAIN book[r]
             /\ \A j \in DOMAIN book[r] :
                  book'[r][j] = IF r = q /\ j = i THEN left ELSE book[r][j]
  BY <1>1
<1>3. ASSUME NEW r \in Queues, NEW j \in DOMAIN book[r], ~(r = q /\ j = i)
      PROVE  book[r][j] # book[q][i]
  <2>1. OwnList(book[r][j]) = r /\ OwnList(book[q][i]) = q
    BY DEF IndInv, Filed
  <2>2. CASE r = q
    <3>1. j \in Int /\ i \in Int
      BY <1>1, <2>2
    <3>2. j < i \/ i < j
      BY <1>3, <2>2, <3>1
    <3>3. book[q][j].id < book[q][i].id \/ book[q][i].id < book[q][j].id
      BY <2>2, <3>2 DEF IndInv, ArrivalOrder
    <3>4. book[q][j].id \in Int /\ book[q][i].id \in Int
      BY <1>1, <2>2, BookDomain, OrderFields
    <3> QED
      BY <2>2, <3>3, <3>4
  <2> QED
    BY <2>1, <2>2
<1>4. ASSUME NEW o \in AllResting'
      PROVE  o \in (AllResting \ {book[q][i]}) \cup {left}
  <2>1. PICK r \in Queues : \E j \in DOMAIN book'[r] : o = book'[r][j]
    BY DEF AllResting, RestingIn
  <2>2. PICK j \in DOMAIN book[r] : o = book'[r][j]
    BY <1>2, <2>1
  <2> QED
    BY <1>2, <1>3, <2>2, RestingIsResting
<1>5. ASSUME NEW o \in (AllResting \ {book[q][i]}) \cup {left}
      PROVE  o \in AllResting'
  <2>1. \E r \in Queues : \E j \in DOMAIN book'[r] : o = book'[r][j]
    <3>1. CASE o = left
      BY <1>2, <3>1
    <3>2. CASE o \in AllResting /\ o # book[q][i]
      <4>1. PICK r \in Queues : \E j \in DOMAIN book[r] : o = book[r][j]
        BY <3>2 DEF AllResting, RestingIn
      <4> QED
        BY <1>2, <3>2, <4>1
    <3> QED
      BY <1>5, <3>1, <3>2
  <2> QED
    BY <2>1 DEF AllResting, RestingIn
<1> QED
  BY <1>4, <1>5

(* append adds one order to the book and loses none.                       *)
LEMMA LinkingResting ==
  ASSUME IndInv, NEW o \in Order,
         book' = [book EXCEPT ![OwnList(o)] = Linked(book[OwnList(o)], o)]
  PROVE  AllResting' = AllResting \cup {o}
<1> DEFINE q == OwnList(o)
<1>1. /\ q \in Queues /\ book \in [Queues -> Seq(Order)] /\ book[q] \in Seq(Order)
      /\ DOMAIN book[q] = 1 .. Len(book[q]) /\ Len(book[q]) \in Nat
  BY OrderFields, BookDomain DEF IndInv, TypeOK
<1>2. /\ Linked(book[q], o) \in Seq(Order)
      /\ Len(Linked(book[q], o)) = Len(book[q]) + 1
      /\ \A j \in 1 .. Len(book[q]) : Linked(book[q], o)[j] = book[q][j]
      /\ Linked(book[q], o)[Len(book[q]) + 1] = o
  BY <1>1, AppendProperties DEF Linked
<1>3. /\ book'[q] = Linked(book[q], o)
      /\ DOMAIN book'[q] = 1 .. Len(book[q]) + 1
      /\ \A r \in Queues : r # q => book'[r] = book[r]
  BY <1>1, <1>2, LenProperties
<1> HIDE DEF q
<1>4. ASSUME NEW p \in AllResting'
      PROVE  p = o \/ p \in AllResting
  <2>1. PICK r \in Queues : \E j \in DOMAIN book'[r] : p = book'[r][j]
    BY DEF AllResting, RestingIn
  <2>2. PICK j \in DOMAIN book'[r] : p = book'[r][j]
    BY <2>1
  <2>3. CASE r = q
    BY <1>1, <1>2, <1>3, <2>2, <2>3, RestingIsResting
  <2>4. CASE r # q
    BY <1>3, <2>2, <2>4, RestingIsResting
  <2> QED
    BY <2>3, <2>4
<1>5. ASSUME NEW p, p = o \/ p \in AllResting
      PROVE  p \in AllResting'
  <2>1. \E r \in Queues : \E j \in DOMAIN book'[r] : p = book'[r][j]
    <3>1. CASE p = o
      <4>1. Len(book[q]) + 1 \in DOMAIN book'[q]
        BY <1>1, <1>3
      <4> QED
        BY <1>1, <1>2, <1>3, <3>1, <4>1
    <3>2. CASE p \in AllResting
      <4>1. PICK r \in Queues : \E j \in DOMAIN book[r] : p = book[r][j]
        BY <3>2 DEF AllResting, RestingIn
      <4>2. PICK j \in DOMAIN book[r] : p = book[r][j]
        BY <4>1
      <4>3. j \in DOMAIN book'[r] /\ book'[r][j] = book[r][j]
        BY <1>1, <1>2, <1>3, <4>2
      <4> QED
        BY <4>2, <4>3
    <3> QED
      BY <1>5, <3>1, <3>2
  <2> QED
    BY <2>1 DEF AllResting, RestingIn
<1> QED
  BY <1>4, <1>5

(* detachIn changes nobody's identifier or quantity.                       *)
LEMMA DetachingResting ==
  ASSUME IndInv, NEW fd \in Fds, DetachClientOrders(fd)
  PROVE  /\ \A o \in AllResting' : \E p \in AllResting :
               o.id = p.id /\ o.quantity = p.quantity
         /\ \A p \in AllResting : \E o \in AllResting' : o.id = p.id
<1>1. book \in [Queues -> Seq(Order)] /\ IndInv'
  BY DetachClientOrdersKeepsIndInv DEF IndInv, TypeOK
<1>2. book' \in [Queues -> Seq(Order)]
  BY <1>1 DEF IndInv, TypeOK
<1>3. ASSUME NEW r \in Queues
      PROVE  /\ DOMAIN book'[r] = DOMAIN book[r]
             /\ \A j \in DOMAIN book[r] :
                  /\ book'[r][j].id = book[r][j].id
                  /\ book'[r][j].quantity = book[r][j].quantity
  <2>1. book'[r] = Detached(book[r], fd) /\ book[r] \in Seq(Order)
    BY <1>1 DEF DetachClientOrders
  <2>2. /\ Len(book'[r]) = Len(book[r])
        /\ \A j \in 1 .. Len(book[r]) :
             SameTerms(book'[r][j], book[r][j]) /\ book'[r][j].quantity = book[r][j].quantity
    BY <2>1, DetachedProperties
  <2>3. DOMAIN book'[r] = 1 .. Len(book'[r]) /\ DOMAIN book[r] = 1 .. Len(book[r])
    BY <1>1, <1>2, BookDomain
  <2> QED
    BY <2>2, <2>3 DEF SameTerms
<1>4. ASSUME NEW o \in AllResting'
      PROVE  \E p \in AllResting : o.id = p.id /\ o.quantity = p.quantity
  <2>1. PICK r \in Queues : \E j \in DOMAIN book'[r] : o = book'[r][j]
    BY DEF AllResting, RestingIn
  <2>2. PICK j \in DOMAIN book[r] : o = book'[r][j]
    BY <1>3, <2>1
  <2> QED
    BY <1>3, <2>2, RestingIsResting
<1>5. ASSUME NEW p \in AllResting
      PROVE  \E o \in AllResting' : o.id = p.id
  <2>1. PICK r \in Queues : \E j \in DOMAIN book[r] : p = book[r][j]
    BY DEF AllResting, RestingIn
  <2>2. PICK j \in DOMAIN book[r] : p = book[r][j]
    BY <2>1
  <2>3. book'[r][j] \in AllResting'
    BY <1>3, <2>2 DEF AllResting, RestingIn
  <2> QED
    BY <1>3, <2>2, <2>3
<1> QED
  BY <1>4, <1>5
-----------------------------------------------------------------------------
(* The histories and identifiers the sums are about are numbers.           *)
LEMMA HistoryTypes ==
  ASSUME IndInv
  PROVE  /\ \A id \in OrderIds : placed[id] \in Nat /\ executed[id] \in Nat
                                 /\ withdrawn[id] \in Nat /\ id \in Int
         /\ placed \in [OrderIds -> Nat] /\ executed \in [OrderIds -> Nat]
         /\ withdrawn \in [OrderIds -> Nat]
         /\ next_order_id \in Int
  BY BoundAssumption DEF IndInv, TypeOK, OrderIds

(* A step that moves no quantity and loses no identifier conserves.        *)
LEMMA SameHoldingsConserve ==
  ASSUME Conservation,
         placed' = placed, executed' = executed, withdrawn' = withdrawn,
         \A o \in AllResting' :
           (\E p \in AllResting : o.id = p.id /\ o.quantity = p.quantity)
           \/ (ord # NoOrder /\ o = ord),
         ord' # NoOrder => ord' = ord,
         \A id \in OrderIds \ LiveIds' :
           id \notin LiveIds \/ (ord # NoOrder /\ id = ord.id /\ ord.quantity = 0),
         ord # NoOrder => ord \in Order,
         IndInv
  PROVE  Conservation'
<1>1. \A o \in AllResting' : Accounted(o)'
  BY DEF Conservation, Accounted
<1>2. ord' # NoOrder => Accounted(ord)'
  BY DEF Conservation, Accounted
<1>3. ASSUME NEW id \in OrderIds \ LiveIds'
      PROVE  placed[id] = executed[id] + withdrawn[id]
  <2>1. CASE id \notin LiveIds
    BY <2>1 DEF Conservation
  <2>2. CASE ord # NoOrder /\ id = ord.id /\ ord.quantity = 0
    <3>1. placed[id] = executed[id] + withdrawn[id] + 0
      BY <2>2 DEF Conservation, Accounted
    <3> QED
      BY <3>1, HistoryTypes
  <2> QED
    BY <2>1, <2>2
<1> QED
  BY <1>1, <1>2, <1>3 DEF Conservation

LEMMA PlaceOrderConserves ==
  ASSUME ConservationInv, NEW fd \in Fds, NEW side \in Sides, NEW listing \in Listings,
         NEW quantity \in Quantities,
         PlaceOrder(fd, side, listing[1], quantity, listing[2])
  PROVE  Conservation' /\ Unissued'
<1>1. /\ ord = NoOrder /\ next_order_id' = next_order_id + 1
      /\ ord'.id = next_order_id /\ ord'.quantity = quantity
      /\ placed' = [placed EXCEPT ![next_order_id] = quantity]
      /\ executed' = executed /\ withdrawn' = withdrawn /\ book' = book
  BY DEF PlaceOrder
<1>2. next_order_id \in OrderIds /\ quantity \in Nat
  BY BoundAssumption, QuantityAssumption DEF ConservationInv, IndInv, TypeOK, OrderIds, PlaceOrder
<1>3. AllResting' = AllResting
  BY <1>1 DEF AllResting, RestingIn
<1>4. \A o \in AllResting : o.id # next_order_id /\ o.id \in OrderIds
  BY RestingFacts, HistoryTypes, OrderFields DEF ConservationInv
<1>5. placed[next_order_id] = 0
  BY <1>2, HistoryTypes DEF ConservationInv, Unissued
<1>6. next_order_id \notin LiveIds
  BY <1>1, <1>4 DEF LiveIds
<1>7. executed[next_order_id] = 0 /\ withdrawn[next_order_id] = 0
  <2>1. placed[next_order_id] = executed[next_order_id] + withdrawn[next_order_id]
    BY <1>2, <1>6 DEF ConservationInv, Conservation
  <2> QED
    BY <1>2, <1>5, <2>1, HistoryTypes DEF ConservationInv
<1>8. \A o \in AllResting' : Accounted(o)'
  BY <1>1, <1>2, <1>3, <1>4, HistoryTypes DEF ConservationInv, Conservation, Accounted
<1>9. Accounted(ord)'
  BY <1>1, <1>2, <1>7, HistoryTypes DEF Accounted, ConservationInv
<1>10. ASSUME NEW id \in OrderIds \ LiveIds'
       PROVE  placed'[id] = executed'[id] + withdrawn'[id]
  <2>1. ord' # NoOrder
    BY <1>2, PlaceOrderKeepsIndInv, OrderAssumption, ListingAssumption
       DEF PlaceOrder, ConservationInv, Order
  <2>2. id # next_order_id
    BY <1>1, <2>1 DEF LiveIds
  <2>3. id \notin LiveIds
    BY <1>1, <1>3 DEF LiveIds
  <2> QED
    BY <1>1, <1>2, <2>2, <2>3, HistoryTypes DEF ConservationInv, Conservation
<1>11. Unissued'
  BY <1>1, <1>2, HistoryTypes DEF Unissued, ConservationInv
<1> QED
  BY <1>8, <1>9, <1>10, <1>11 DEF Conservation

(* The same quantity leaves the incoming order and the resting one and is  *)
(* executed under both identifiers.  `rest` is what still rests of the     *)
(* resting order, if anything does.                                        *)
LEMMA TradeConserves ==
  ASSUME ConservationInv, Walking, Resting \in AllResting,
         NEW qty, qty = ExecutedQuantity(Resting, ord), Trade(qty),
         NEW rest, rest.id = Resting.id, rest.quantity = Resting.quantity - qty,
         \/ AllResting' = (AllResting \ {Resting}) \cup {rest}
         \/ AllResting' = AllResting \ {Resting} /\ rest.quantity = 0
  PROVE  Conservation'
<1>1. /\ ord \in Order /\ ord # NoOrder /\ Resting \in Order
      /\ qty \in Nat /\ ord.quantity \in Nat /\ Resting.quantity \in Nat
      /\ qty <= ord.quantity /\ qty <= Resting.quantity
  BY WalkingFacts, ExecutedQuantityBounds DEF ConservationInv, Walking
<1>2. ord.id \in OrderIds /\ Resting.id \in OrderIds /\ Resting.id # ord.id
  BY <1>1, RestingFacts, OrderFields DEF ConservationInv
<1>3. /\ placed' = placed /\ withdrawn' = withdrawn
      /\ executed' = [executed EXCEPT ![ord.id] = @ + qty, ![Resting.id] = @ + qty]
  BY DEF Trade
<1>4. /\ executed'[ord.id] = executed[ord.id] + qty
      /\ executed'[Resting.id] = executed[Resting.id] + qty
      /\ \A id \in OrderIds : id # ord.id /\ id # Resting.id => executed'[id] = executed[id]
  BY <1>2, <1>3, HistoryTypes DEF ConservationInv
<1>5. ord' # NoOrder /\ ord'.id = ord.id /\ ord'.quantity = ord.quantity - qty
  BY TradeTypes DEF ConservationInv
<1>6. /\ placed[ord.id] = executed[ord.id] + withdrawn[ord.id] + ord.quantity
      /\ placed[Resting.id] = executed[Resting.id] + withdrawn[Resting.id] + Resting.quantity
  BY <1>1 DEF ConservationInv, Conservation, Accounted
<1>7. Accounted(ord)'
  <2>1. placed[ord.id] = (executed[ord.id] + qty) + withdrawn[ord.id] + (ord.quantity - qty)
    BY <1>1, <1>2, <1>6, HistoryTypes DEF ConservationInv
  <2> QED
    BY <2>1, <1>3, <1>4, <1>5 DEF Accounted
<1>8. Accounted(rest)'
  <2>1. placed[Resting.id] =
          (executed[Resting.id] + qty) + withdrawn[Resting.id] + (Resting.quantity - qty)
    BY <1>1, <1>2, <1>6, HistoryTypes DEF ConservationInv
  <2>2. placed'[rest.id] = executed'[rest.id] + withdrawn'[rest.id] + rest.quantity
    BY <2>1, <1>3, <1>4
  <2> QED
    BY <2>2 DEF Accounted
<1>9. ASSUME NEW o \in AllResting, o # Resting
      PROVE  Accounted(o)'
  <2>1. o.id # Resting.id /\ o.id # ord.id /\ o.id \in OrderIds
    BY <1>1, <1>9, RestingFacts, OrderFields DEF ConservationInv
  <2> QED
    BY <2>1, <1>3, <1>4 DEF ConservationInv, Conservation, Accounted
<1>10. \A o \in AllResting' : Accounted(o)'
  BY <1>8, <1>9
<1>11. ASSUME NEW id \in OrderIds \ LiveIds'
       PROVE  placed'[id] = executed'[id] + withdrawn'[id]
  <2>1. id # ord.id
    BY <1>5 DEF LiveIds
  <2>2. CASE id = Resting.id
    <3>1. rest.quantity = 0
      BY <2>2 DEF LiveIds
    <3>2. Resting.quantity = qty
      BY <1>1, <3>1
    <3> QED
      BY <1>1, <1>2, <1>3, <1>4, <1>6, <2>2, <3>2, HistoryTypes DEF ConservationInv
  <2>3. CASE id # Resting.id
    <3>1. ASSUME NEW o \in AllResting PROVE id # o.id
      <4>1. CASE o = Resting
        BY <2>3, <4>1
      <4>2. CASE o # Resting
        <5>1. o \in AllResting'
          BY <4>2
        <5> QED
          BY <5>1 DEF LiveIds
      <4> QED
        BY <4>1, <4>2
    <3>2. id \notin LiveIds
      BY <2>1, <3>1 DEF LiveIds
    <3> QED
      BY <1>3, <1>4, <2>1, <2>3, <3>2 DEF ConservationInv, Conservation
  <2> QED
    BY <2>2, <2>3
<1> QED
  BY <1>7, <1>10, <1>11 DEF Conservation

LEMMA ExecuteAllConserves ==
  ASSUME ConservationInv, ExecuteAll
  PROVE  Conservation'
<1> DEFINE q == OppList(ord)
           qty == ExecutedQuantity(Resting, ord)
           rest == [Resting EXCEPT !.quantity = 0]
<1>1. /\ Walking /\ qty = Resting.quantity /\ Trade(qty)
      /\ book' = [book EXCEPT ![q] = Unlinked(book[q], cur)]
  BY DEF ExecuteAll
<1>2. /\ q \in Queues /\ cur \in DOMAIN book[q] /\ Resting = book[q][cur]
      /\ Resting \in Order /\ Resting.quantity \in Nat
  BY <1>1, WalkingFacts DEF ConservationInv
<1> HIDE DEF q
<1>3. AllResting' = AllResting \ {Resting} /\ Resting \in AllResting
  BY <1>1, <1>2, UnlinkingResting, RestingIsResting DEF ConservationInv
<1>4. rest.id = Resting.id /\ rest.quantity = 0
  BY <1>2 DEF Order
<1>5. rest.quantity = Resting.quantity - qty
  BY <1>1, <1>2, <1>4
<1> HIDE DEF rest
<1> QED
  BY <1>1, <1>3, <1>4, <1>5, TradeConserves

LEMMA ExecutePartConserves ==
  ASSUME ConservationInv, ExecutePart
  PROVE  Conservation'
<1> DEFINE q == OppList(ord)
           qty == ExecutedQuantity(Resting, ord)
           rest == [Resting EXCEPT !.quantity = Resting.quantity - qty]
<1>1. /\ Walking /\ Trade(qty)
      /\ book' = [book EXCEPT ![q] = [book[q] EXCEPT ![cur] = rest]]
  BY DEF ExecutePart, Resting
<1>2. /\ q \in Queues /\ cur \in DOMAIN book[q] /\ Resting = book[q][cur]
      /\ Resting \in Order
  BY <1>1, WalkingFacts DEF ConservationInv
<1>3. rest.id = Resting.id /\ rest.quantity = Resting.quantity - qty
  BY <1>2 DEF Order
<1> HIDE DEF q, rest
<1>4. AllResting' = (AllResting \ {Resting}) \cup {rest} /\ Resting \in AllResting
  BY <1>1, <1>2, RewritingResting, RestingIsResting DEF ConservationInv
<1> QED
  BY <1>1, <1>3, <1>4, TradeConserves

LEMMA ReturnConserves ==
  ASSUME ConservationInv, Return
  PROVE  Conservation'
<1>1. /\ ord # NoOrder /\ ord \in Order /\ ord.quantity \in Nat /\ ord' = NoOrder
      /\ placed' = placed /\ executed' = executed /\ withdrawn' = withdrawn
  BY RestingFacts, OrderFields DEF Return, history, ConservationInv
<1>2. CASE ord.quantity > 0
  <2>1. AllResting' = AllResting \cup {ord}
    BY <1>1, <1>2, LinkingResting DEF Return, ConservationInv
  <2>2. LiveIds' = LiveIds
    BY <1>1, <2>1 DEF LiveIds
  <2> QED
    BY <1>1, <2>1, <2>2, SameHoldingsConserve DEF ConservationInv
<1>3. CASE ~(ord.quantity > 0)
  <2>1. AllResting' = AllResting
    BY <1>3 DEF Return, AllResting, RestingIn
  <2>2. ord.quantity = 0
    BY <1>1, <1>3
  <2>3. LiveIds = LiveIds' \cup {ord.id}
    BY <1>1, <2>1 DEF LiveIds
  <2> QED
    BY <1>1, <2>1, <2>2, <2>3, SameHoldingsConserve DEF ConservationInv
<1> QED
  BY <1>2, <1>3

LEMMA CancelOrderConserves ==
  ASSUME ConservationInv, NEW id \in OrderIds, NEW fd \in Fds, CancelOrder(id, fd)
  PROVE  Conservation'
<1>1. PICK q \in Queues : \E i \in DOMAIN book[q] :
        /\ FirstFound(q, i, id, fd)
        /\ book' = [book EXCEPT ![q] = Unlinked(book[q], i)]
        /\ withdrawn' = [withdrawn EXCEPT ![id] = @ + book[q][i].quantity]
  BY DEF CancelOrder
<1>2. PICK i \in DOMAIN book[q] :
        /\ FirstFound(q, i, id, fd)
        /\ book' = [book EXCEPT ![q] = Unlinked(book[q], i)]
        /\ withdrawn' = [withdrawn EXCEPT ![id] = @ + book[q][i].quantity]
  BY <1>1
<1> DEFINE gone == book[q][i]
<1>3. gone \in AllResting /\ gone.id = id
  BY <1>2, RestingIsResting DEF FirstFound, MayCancel
<1>4. AllResting' = AllResting \ {gone}
  BY <1>2, UnlinkingResting DEF ConservationInv
<1>5. ord = NoOrder /\ ord' = NoOrder /\ placed' = placed /\ executed' = executed
  BY DEF CancelOrder
<1>6. gone.quantity \in Nat
  BY <1>3, RestingFacts, OrderFields DEF ConservationInv
<1>7. /\ withdrawn'[id] = withdrawn[id] + gone.quantity
      /\ \A other \in OrderIds : other # id => withdrawn'[other] = withdrawn[other]
  BY <1>2, HistoryTypes DEF ConservationInv
<1> HIDE DEF gone
<1>8. ASSUME NEW o \in AllResting'
      PROVE  Accounted(o)'
  <2>1. o \in AllResting /\ o.id # id /\ o.id \in OrderIds
    BY <1>3, <1>4, RestingFacts, OrderFields DEF ConservationInv
  <2> QED
    BY <2>1, <1>5, <1>7 DEF ConservationInv, Conservation, Accounted
<1>9. ASSUME NEW other \in OrderIds \ LiveIds'
      PROVE  placed'[other] = executed'[other] + withdrawn'[other]
  <2>1. CASE other = id
    <3>1. placed[id] = executed[id] + withdrawn[id] + gone.quantity
      BY <1>3 DEF ConservationInv, Conservation, Accounted
    <3> QED
      BY <2>1, <3>1, <1>5, <1>6, <1>7, HistoryTypes DEF ConservationInv
  <2>2. CASE other # id
    <3>1. other \notin LiveIds
      BY <1>3, <1>4, <1>5, <2>2 DEF LiveIds
    <3> QED
      BY <3>1, <1>5, <1>7, <2>2 DEF ConservationInv, Conservation
  <2> QED
    BY <2>1, <2>2
<1> QED
  BY <1>5, <1>8, <1>9 DEF Conservation

LEMMA DetachClientOrdersConserves ==
  ASSUME ConservationInv, NEW fd \in Fds, DetachClientOrders(fd)
  PROVE  Conservation'
<1>1. /\ ord = NoOrder /\ ord' = NoOrder
      /\ placed' = placed /\ executed' = executed /\ withdrawn' = withdrawn
  BY DEF DetachClientOrders, history
<1>2. /\ \A o \in AllResting' : \E p \in AllResting :
            o.id = p.id /\ o.quantity = p.quantity
      /\ \A p \in AllResting : \E o \in AllResting' : o.id = p.id
  BY DetachingResting DEF ConservationInv
<1>3. LiveIds \subseteq LiveIds'
  BY <1>1, <1>2 DEF LiveIds
<1> QED
  BY <1>1, <1>2, <1>3, SameHoldingsConserve DEF ConservationInv

LEMMA NextKeepsConservationInv == ConservationInv /\ [Next]_vars => ConservationInv'
<1> SUFFICES ASSUME ConservationInv, [Next]_vars PROVE Conservation' /\ Unissued'
  BY NextKeepsIndInv DEF ConservationInv
<1>1. CASE \E fd \in Fds, side \in Sides, listing \in Listings, quantity \in Quantities :
             PlaceOrder(fd, side, listing[1], quantity, listing[2])
  BY <1>1, PlaceOrderConserves
<1>2. CASE ~\E fd \in Fds, side \in Sides, listing \in Listings, quantity \in Quantities :
             PlaceOrder(fd, side, listing[1], quantity, listing[2])
  <2>1. placed' = placed /\ next_order_id' = next_order_id
    BY <1>2 DEF Next, Skip, ExecuteAll, ExecutePart, Trade, Return, CancelOrder,
                DetachClientOrders, vars, bookVars, history
  <2>2. Unissued'
    BY <2>1 DEF ConservationInv, Unissued
  <2>3. CASE Skip \/ UNCHANGED vars
    <3>1. /\ AllResting' = AllResting /\ ord' = ord
          /\ executed' = executed /\ withdrawn' = withdrawn
      BY <2>3 DEF Skip, vars, bookVars, history, AllResting, RestingIn
    <3>2. LiveIds' = LiveIds
      BY <3>1 DEF LiveIds
    <3> QED
      BY <2>1, <2>2, <3>1, <3>2 DEF ConservationInv, Conservation, Accounted
  <2>4. CASE ExecuteAll
    BY <2>2, <2>4, ExecuteAllConserves
  <2>5. CASE ExecutePart
    BY <2>2, <2>5, ExecutePartConserves
  <2>6. CASE Return
    BY <2>2, <2>6, ReturnConserves
  <2>7. CASE \E id \in OrderIds, fd \in Fds : CancelOrder(id, fd)
    BY <2>2, <2>7, CancelOrderConserves
  <2>8. CASE \E fd \in Fds : DetachClientOrders(fd)
    BY <2>2, <2>8, DetachClientOrdersConserves
  <2> QED
    BY <1>2, <2>3, <2>4, <2>5, <2>6, <2>7, <2>8 DEF Next
<1> QED
  BY <1>1, <1>2

LEMMA InitConservationInv == Init => ConservationInv
<1> SUFFICES ASSUME Init PROVE Conservation /\ Unissued
  BY InitIndInv DEF ConservationInv
<1>1. AllResting = {} /\ ord = NoOrder
  BY DEF Init, AllResting, RestingIn
<1>2. \A id \in OrderIds : placed[id] = 0 /\ executed[id] = 0 /\ withdrawn[id] = 0
  BY DEF Init
<1> QED
  BY <1>1, <1>2 DEF Conservation, Unissued

(* No share is created or lost (orderbook.c:107-235): at every iteration   *)
(* of addOrder's loop, what each order arrived with is what it executed,   *)
(* what was cancelled and what it still holds.                             *)
THEOREM ConservationHolds == Spec => []Conservation
<1>1. ConservationInv => Conservation
  BY DEF ConservationInv
<1> QED
  BY <1>1, InitConservationInv, NextKeepsConservationInv, PTL DEF Spec

-----------------------------------------------------------------------------
(* The report *)

(* The fills lie within the array, and while memory lasts it has room for  *)
(* the next one.                                                           *)
FillsFit == Len(fills) <= cap

LEMMA TradeRecords ==
  ASSUME IndInv, FillsFit, NEW qty, Trade(qty)
  PROVE  /\ FillsFit'
         /\ fills' = fills \/ fills' = Append(fills, FillOf(Resting, ord, qty))
         /\ ~AllocMayFail => fills' = Append(fills, FillOf(Resting, ord, qty))
<1>1. /\ fills \in Seq(Fill) /\ cap \in Nat /\ Len(fills) \in Nat
      /\ FILLS_INITIAL_CAPACITY \in Nat /\ FILLS_INITIAL_CAPACITY > 0
  BY CapacityAssumption, LenProperties DEF IndInv, TypeOK
<1>2. PICK fill : fill = FillOf(Resting, ord, qty)
  OBVIOUS
<1>3. /\ fills' = IF Len(fills) < cap' THEN Append(fills, fill) ELSE fills
      /\ cap' \in CapacityAfterRealloc(Len(fills), cap)
  BY <1>2 DEF Trade, Recorded
<1>4. /\ cap' \in Nat /\ Len(fills) <= cap'
      /\ ~AllocMayFail => Len(fills) < cap'
  BY <1>1, <1>3 DEF CapacityAfterRealloc, FillsFit
<1>5. Len(Append(fills, fill)) = Len(fills) + 1
  <2>1. \A S : \A s \in Seq(S) : \A e : Len(Append(s, e)) = Len(s) + 1
    OBVIOUS
  <2> QED
    BY <1>1, <2>1
<1>6. FillsFit'
  BY <1>1, <1>3, <1>4, <1>5 DEF FillsFit
<1> QED
  BY <1>2, <1>3, <1>4, <1>6

ReportInv == ConservationInv /\ FillsFit /\ ReportComplete

Total(report) == SumFunction([i \in DOMAIN report |-> report[i].quantity])

LEMMA TotalAppended ==
  ASSUME NEW report \in Seq(Fill), NEW fill \in Fill
  PROVE  Total(Append(report, fill)) = Total(report) + fill.quantity
<1>1. \A other \in Fill : other.quantity \in Nat
  BY DEF Fill
<1>2. PICK f : f = [i \in DOMAIN report |-> report[i].quantity]
  OBVIOUS
<1>3. PICK g : g = [i \in DOMAIN Append(report, fill) |-> Append(report, fill)[i].quantity]
  OBVIOUS
<1>4. SumFunction(g) = SumFunction(f) + fill.quantity
  BY <1>1, <1>2, <1>3, SumAppended
<1> QED
  BY <1>2, <1>3, <1>4 DEF Total

LEMMA NothingReported == Total(<<>>) = 0
<1>1. PICK f : f = [i \in DOMAIN <<>> |-> (<<>>)[i].quantity]
  OBVIOUS
<1>2. DOMAIN f = {}
  BY <1>1
<1>3. SumFunction(f) = 0
  BY <1>2, FS_EmptySet, SumRecursion DEF SumFunction
<1> QED
  BY <1>1, <1>3 DEF Total

(* Each execution of the walk adds to the report what it adds to what the  *)
(* order has executed.                                                     *)
LEMMA TradeReports ==
  ASSUME ReportInv, ~AllocMayFail, Walking, NEW qty, qty = ExecutedQuantity(Resting, ord),
         Trade(qty)
  PROVE  FillsFit' /\ ReportComplete'
<1>1. /\ ord \in Order /\ ord # NoOrder /\ Resting \in Order
      /\ qty \in Nat /\ IndInv /\ ord.id \in OrderIds /\ Resting.id \in OrderIds
  BY WalkingFacts, ExecutedQuantityBounds, OrderFields DEF ReportInv, ConservationInv, Walking
<1>2. Resting.id # ord.id
  <2>1. Resting \in AllResting
    BY <1>1, WalkingFacts, RestingIsResting
  <2> QED
    BY <1>1, <2>1, RestingFacts DEF ReportInv, ConservationInv
<1>3. executed'[ord.id] = executed[ord.id] + qty
  <2>1. executed' = [executed EXCEPT ![ord.id] = @ + qty, ![Resting.id] = @ + qty]
    BY DEF Trade
  <2> QED
    BY <1>1, <1>2, <2>1, HistoryTypes DEF ReportInv, ConservationInv
<1>4. ord' # NoOrder /\ ord'.id = ord.id
  BY <1>1, TradeTypes
<1>5. PICK fill : fill = FillOf(Resting, ord, qty)
  OBVIOUS
<1>6. fill \in Fill /\ fill.quantity = qty
  BY <1>1, <1>5, OrderFields DEF FillOf, Fill
<1>7. FillsFit' /\ fills' = Append(fills, fill) /\ fills \in Seq(Fill)
  BY <1>1, <1>5, TradeRecords DEF ReportInv, IndInv, TypeOK
<1>8. Total(fills') = Total(fills) + qty
  BY <1>6, <1>7, TotalAppended
<1>9. Total(fills) = executed[ord.id]
  BY <1>1 DEF ReportInv, ReportComplete, Total
<1>10. Total(fills') = executed'[ord'.id]
  BY <1>3, <1>4, <1>8, <1>9
<1> QED
  BY <1>7, <1>10 DEF ReportComplete, Total

LEMMA NextKeepsReportInv ==
  ASSUME ~AllocMayFail, ReportInv, [Next]_vars
  PROVE  ReportInv'
<1> SUFFICES FillsFit' /\ ReportComplete'
  BY NextKeepsConservationInv DEF ReportInv
<1>1. CASE \E fd \in Fds, side \in Sides, listing \in Listings, quantity \in Quantities :
             PlaceOrder(fd, side, listing[1], quantity, listing[2])
  <2>1. /\ fills' = <<>> /\ cap' = 0 /\ executed' = executed
        /\ next_order_id < MaxOrders /\ ord'.id = next_order_id /\ ord = NoOrder
    BY <1>1 DEF PlaceOrder
  <2>2. /\ next_order_id \in OrderIds /\ placed[next_order_id] = 0
        /\ next_order_id \notin LiveIds
    <3>1. next_order_id \in OrderIds /\ next_order_id \in Nat
      BY <2>1, BoundAssumption DEF ReportInv, ConservationInv, IndInv, TypeOK, OrderIds
    <3>2. \A o \in AllResting : o.id # next_order_id
      BY <3>1, RestingFacts, OrderFields DEF ReportInv, ConservationInv
    <3> QED
      BY <2>1, <3>1, <3>2 DEF LiveIds, ReportInv, ConservationInv, Unissued
  <2>3. executed[next_order_id] = 0
    BY <2>2, HistoryTypes DEF ReportInv, ConservationInv, Conservation
  <2>4. Len(fills') = 0
    BY <2>1
  <2>5. Total(fills') = executed'[ord'.id]
    BY <2>1, <2>3, NothingReported
  <2> QED
    BY <2>1, <2>4, <2>5 DEF FillsFit, ReportComplete, Total
<1>2. CASE Skip \/ UNCHANGED vars
  BY <1>2 DEF ReportInv, Skip, vars, bookVars, history, FillsFit, ReportComplete
<1>3. CASE ExecuteAll
  BY <1>3, TradeReports DEF ExecuteAll
<1>4. CASE ExecutePart
  BY <1>4, TradeReports DEF ExecutePart
<1>5. CASE Return
  <2>1. fills' = <<>> /\ cap' = 0 /\ ord' = NoOrder
    BY <1>5 DEF Return
  <2>2. Len(fills') = 0
    BY <2>1
  <2> QED
    BY <2>1, <2>2 DEF FillsFit, ReportComplete
<1>6. CASE \/ \E id \in OrderIds, fd \in Fds : CancelOrder(id, fd)
           \/ \E fd \in Fds : DetachClientOrders(fd)
  <2>1. fills' = fills /\ cap' = cap /\ ord = NoOrder /\ ord' = ord
    BY <1>6 DEF CancelOrder, DetachClientOrders
  <2> QED
    BY <2>1 DEF ReportInv, FillsFit, ReportComplete
<1> QED
  BY <1>1, <1>2, <1>3, <1>4, <1>5, <1>6 DEF Next

(* While memory lasts, the fill array that addOrder returns accounts for   *)
(* every share it has executed (orderbook.h:46), through every growth of   *)
(* the array.  A realloc that fails drops the fill, so this does not hold  *)
(* without the hypothesis.                                                 *)
THEOREM ReportCompleteHolds ==
  ASSUME ~AllocMayFail
  PROVE  Spec => []ReportComplete
<1>1. Init => ReportInv
  <2> SUFFICES ASSUME Init PROVE ReportInv
    OBVIOUS
  <2>1. ConservationInv
    BY InitConservationInv
  <2>2. Len(<<>>) = 0 /\ fills = <<>> /\ cap = 0 /\ ord = NoOrder
    BY DEF Init
  <2> QED
    BY <2>1, <2>2 DEF ReportInv, FillsFit, ReportComplete
<1>2. ReportInv => ReportComplete
  BY DEF ReportInv
<1>3. ReportInv /\ [Next]_vars => ReportInv'
  BY NextKeepsReportInv
<1> QED
  BY <1>1, <1>2, <1>3, PTL DEF Spec
=============================================================================
