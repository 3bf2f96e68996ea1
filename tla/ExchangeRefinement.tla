-------------------------- MODULE ExchangeRefinement --------------------------
(***************************************************************************)
(* What Exchange does to its clients, seen past descriptors and fills:     *)
(* that it implements Marketplace (descriptors, their reuse, the table and *)
(* the lists of the book cannot be told from a market where everybody has  *)
(* a session and orders of their own), and that what is executed is        *)
(* reported, no more and no less.                                          *)
(***************************************************************************)
EXTENDS ExchangeProofs

(* What is proved of OrderBook, about the book of the server.              *)
Ref == INSTANCE OrderBookRefinement

-----------------------------------------------------------------------------
(* The book *)

LEMMA SameOrders == Ref!Order = Book!Order /\ Ref!Instruments = Instruments
  BY DEF Ref!Order, Book!Order, Ref!Instruments, Instruments, Book!Instruments,
         Ref!OrderIds, Book!OrderIds, Ref!Sides, Book!Sides

LEMMA RefHypotheses ==
  /\ NoFd \notin Fds
  /\ NoOrder \notin Ref!Order
  /\ Listings \subseteq Ref!Instruments \X (Nat \ {0})
  /\ Quantities \subseteq Nat \ {0}
  /\ MaxOrders \in Nat
  /\ FILLS_INITIAL_CAPACITY \in Nat \ {0}
  /\ AllocMayFail \in BOOLEAN
  BY SameOrders, BookAssumption, BoundAssumption, CapacityAssumption

LEMMA SameResting ==
  /\ Ref!AllResting = Book!AllResting
  /\ Ref!AllResting' = Book!AllResting'
  BY DEF Ref!AllResting, Book!AllResting, Ref!RestingIn, Book!RestingIn, Ref!Queues,
         Book!Queues, Ref!Instruments, Book!Instruments, Ref!Sides, Book!Sides

LEMMA SameVariables ==
  Ref!vars = Book!vars /\ Ref!vars' = Book!vars'
  BY DEF Ref!vars, Book!vars, Ref!bookVars, Book!bookVars, Ref!history, Book!history

LEMMA SameOperations ==
  /\ Book!ExecuteAll <=> Ref!ExecuteAll
  /\ Book!ExecutePart <=> Ref!ExecutePart
  /\ Book!Return <=> Ref!Return
  /\ \A id, fd : Book!CancelOrder(id, fd) <=> Ref!CancelOrder(id, fd)
  /\ \A fd : Book!DetachClientOrders(fd) <=> Ref!DetachClientOrders(fd)
  BY DEF Book!ExecuteAll, Ref!ExecuteAll, Book!ExecutePart, Ref!ExecutePart,
         Book!Return, Ref!Return, Book!CancelOrder, Ref!CancelOrder,
         Book!DetachClientOrders, Ref!DetachClientOrders, Book!Walking, Ref!Walking,
         Book!Resting, Ref!Resting, Book!OppList, Ref!OppList, Book!OppositeSide,
         Ref!OppositeSide, Book!OwnList, Ref!OwnList, Book!Crosses, Ref!Crosses,
         Book!ExecutedQuantity, Ref!ExecutedQuantity, Book!Trade, Ref!Trade,
         Book!CapacityAfterRealloc, Ref!CapacityAfterRealloc, Book!FillOf, Ref!FillOf,
         Book!Recorded, Ref!Recorded, Book!Linked, Ref!Linked, Book!Unlinked,
         Ref!Unlinked, Book!RemoveAt, Ref!RemoveAt, Book!MayCancel, Ref!MayCancel,
         Book!FirstFound, Ref!FirstFound, Book!SearchOrder, Ref!SearchOrder,
         Book!Detached, Ref!Detached, Book!Queues, Ref!Queues, Book!Instruments,
         Ref!Instruments, Book!Sides, Ref!Sides, Book!history, Ref!history

LEMMA SameNext == Book!Next <=> Ref!Next
<1>1. /\ \A fd, side, instrument, quantity, price :
           Book!PlaceOrder(fd, side, instrument, quantity, price) <=>
             Ref!PlaceOrder(fd, side, instrument, quantity, price)
      /\ Book!Skip <=> Ref!Skip
  BY DEF Book!PlaceOrder, Ref!PlaceOrder, Book!Skip, Ref!Skip, Book!Walking, Ref!Walking,
         Book!Resting, Ref!Resting, Book!OppList, Ref!OppList, Book!OppositeSide,
         Ref!OppositeSide, Book!Crosses, Ref!Crosses, Book!history, Ref!history
<1> QED
  BY <1>1, SameOperations
     DEF Book!Next, Ref!Next, Book!Sides, Ref!Sides, Book!OrderIds, Ref!OrderIds

(* What keeps the book in order keeps it so in the server.                 *)
LEMMA InitKeepsBook == Init => Ref!IndInv
<1>1. Book!Init => Ref!Init
  BY DEF Book!Init, Ref!Init, Book!Queues, Ref!Queues, Book!Instruments, Ref!Instruments,
         Book!Sides, Ref!Sides, Book!OrderIds, Ref!OrderIds
<1>2. Ref!Init => Ref!IndInv
  BY Ref!InitIndInv, RefHypotheses
<1> QED
  BY <1>1, <1>2 DEF Init

LEMMA NextKeepsBook == Ref!IndInv /\ [Next]_vars => Ref!IndInv'
<1> SUFFICES ASSUME Ref!IndInv, [Next]_vars PROVE Ref!IndInv'
  OBVIOUS
<1>1. [Ref!Next]_(Ref!vars)
  BY NextUsesBook, SameNext, SameVariables
<1> QED
  BY <1>1, Ref!NextKeepsIndInv, RefHypotheses

-----------------------------------------------------------------------------
(* The connection table *)

(* A client that is connected has one slot, and connected before now; who  *)
(* trades has a name; only a connected client is being removed.            *)
SlotInv ==
  /\ \A fd, other \in Connected : conns[fd].client = conns[other].client => fd = other
  /\ \A fd \in Connected : conns[fd].client <= arrived
  /\ \A fd \in Connected : conns[fd].type = "trader" => conns[fd].username # NoName
  /\ leaving \in Connected \cup {NoFd}

MarketInv == SessionInv /\ OwnerInv /\ Ref!IndInv /\ SlotInv

(* A command changes one connection, keeps whose it is, and gives a trader *)
(* a name.                                                                 *)
LEMMA SessionChangeKeepsSlots ==
  ASSUME MarketInv, NEW fd \in Connected, NEW conn \in Connection,
         conns' = [conns EXCEPT ![fd] = conn], conn.client = conns[fd].client,
         conn.type = "trader" => conn.username # NoName,
         arrived' = arrived, leaving' \in {NoFd, fd}
  PROVE  SlotInv'
<1>1. fd \in Fds /\ SessionTypes
  BY DEF Connected, MarketInv, SessionInv
<1>2. /\ conns'[fd] = conn
      /\ \A other \in Fds \ {fd} : conns'[other] = conns[other]
      /\ Connected' = Connected \cup {fd}
  BY <1>1, UpdatedSlot
<1>3. Connected' = Connected /\ \A other \in Connected : other \in Fds
  BY <1>2 DEF Connected
<1>4. \A other \in Connected : /\ conns'[other].client = conns[other].client
                               /\ conns'[other].type = "trader" => conns'[other].username # NoName
  BY <1>2, <1>3 DEF MarketInv, SlotInv
<1> QED
  BY <1>3, <1>4 DEF MarketInv, SlotInv

LEMMA ConnectKeepsSlots ==
  ASSUME MarketInv, Connect
  PROVE  SlotInv'
<1>1. PICK fd : fd = Min(Fds \ Connected)
  OBVIOUS
<1>2. fd \in Fds \ Connected
  BY <1>1, LowestFreeIsFree DEF Connect
<1>3. /\ conns' = [conns EXCEPT ![fd] = Fresh(arrived + 1)]
      /\ arrived' = arrived + 1 /\ leaving' = leaving
  BY <1>1 DEF Connect
<1>4. arrived + 1 \in Clients /\ arrived \in Nat
  BY BoundAssumption DEF Connect, Clients, MarketInv, SessionInv, SessionTypes
<1>5. /\ conns'[fd] = Fresh(arrived + 1)
      /\ \A other \in Fds \ {fd} : conns'[other] = conns[other]
      /\ Connected' = Connected \cup {fd}
  BY <1>2, <1>3, <1>4, FreshIsConnection, UpdatedSlot DEF MarketInv, SessionInv
<1>6. \A other \in Connected : /\ other \in Fds \ {fd}
                               /\ conns[other].client \in Nat
                               /\ conns[other].client <= arrived
  <2>1. \A other \in Connected : conns[other] \in Connection /\ other \in Fds
    BY ConnectedIsConnection DEF MarketInv, SessionInv
  <2> QED
    BY <1>2, <2>1, BoundAssumption DEF Connection, Clients, MarketInv, SlotInv
<1>7. conns'[fd].client = arrived + 1 /\ conns'[fd].type = "none"
  BY <1>5 DEF Fresh
<1> QED
  BY <1>3, <1>4, <1>5, <1>6, <1>7 DEF MarketInv, SlotInv

LEMMA RemoveClientKeepsSlots ==
  ASSUME MarketInv, NEW fd \in Fds, RemoveClient(fd)
  PROVE  SlotInv'
<1>1. /\ conns' = [conns EXCEPT ![fd] = NoConnection] /\ arrived' = arrived /\ leaving' = NoFd
      /\ conns \in [Fds -> Connection \cup {NoConnection}]
  BY DEF RemoveClient, MarketInv, SessionInv, SessionTypes
<1>2. Connected' = Connected \ {fd} /\ \A other \in Connected' : conns'[other] = conns[other]
  BY <1>1 DEF Connected
<1> QED
  BY <1>1, <1>2 DEF MarketInv, SlotInv

(* Whoever lets a client go has it connected.                              *)
LEMMA SameTableKeepsSlots ==
  ASSUME MarketInv, UNCHANGED <<conns, arrived>>, leaving' \in Connected \cup {NoFd}
  PROVE  SlotInv'
  BY DEF MarketInv, SlotInv, Connected

LEMMA NextKeepsSlots == MarketInv /\ [Next]_vars => SlotInv'
<1> SUFFICES ASSUME MarketInv, [Next]_vars PROVE SlotInv'
  OBVIOUS
<1>1. CASE Connect
  BY <1>1, ConnectKeepsSlots
<1>2. ASSUME NEW fd \in Fds, NEW name \in Names, LoginUser(fd, name)
      PROVE  SlotInv'
  <2>1. fd \in Connected /\ conns[fd] \in Connection
    BY <1>2, ConnectedIsConnection DEF LoginUser, Listening, MarketInv, SessionInv
  <2>2. /\ LoggedIn(conns[fd], name) \in Connection
        /\ LoggedIn(conns[fd], name).client = conns[fd].client
        /\ LoggedIn(conns[fd], name).username # NoName
    BY <2>1, NamingAssumption DEF LoggedIn, Connection
  <2>3. /\ conns' = [conns EXCEPT ![fd] = LoggedIn(conns[fd], name)]
        /\ arrived' = arrived /\ leaving' \in {NoFd, fd}
    BY <1>2 DEF LoginUser, Replied
  <2> QED
    BY <2>1, <2>2, <2>3, SessionChangeKeepsSlots
<1>3. ASSUME NEW fd \in Fds, NEW instrument \in Instruments, SubscribeClient(fd, instrument)
      PROVE  SlotInv'
  <2>1. fd \in Connected /\ conns[fd] \in Connection
    BY <1>3, ConnectedIsConnection DEF SubscribeClient, Listening, MarketInv, SessionInv
  <2>2. /\ Subscribed(conns[fd], instrument) \in Connection
        /\ Subscribed(conns[fd], instrument).client = conns[fd].client
        /\ Subscribed(conns[fd], instrument).type = "market"
    BY <2>1 DEF Subscribed, Connection
  <2>3. /\ conns' = [conns EXCEPT ![fd] = Subscribed(conns[fd], instrument)]
        /\ arrived' = arrived /\ leaving' \in {NoFd, fd}
    BY <1>3 DEF SubscribeClient, Replied
  <2> QED
    BY <2>1, <2>2, <2>3, SessionChangeKeepsSlots
<1>4. ASSUME NEW fd \in Fds, NEW instrument \in Instruments, UnsubscribeClient(fd, instrument)
      PROVE  SlotInv'
  <2>1. fd \in Connected /\ conns[fd] \in Connection
    BY <1>4, ConnectedIsConnection DEF UnsubscribeClient, Listening, MarketInv, SessionInv
  <2> DEFINE conn == [conns[fd] EXCEPT !.subscribed = conns[fd].subscribed \ {instrument}]
  <2>2. conn \in Connection /\ conn.client = conns[fd].client /\ conn.type # "trader"
    BY <1>4, <2>1 DEF Connection, UnsubscribeClient
  <2>3. /\ conns' = [conns EXCEPT ![fd] = conn]
        /\ arrived' = arrived /\ leaving' \in {NoFd, fd}
    BY <1>4 DEF UnsubscribeClient, Replied
  <2> QED
    BY <2>1, <2>2, <2>3, SessionChangeKeepsSlots
<1>5. ASSUME NEW fd \in Fds, QuitUser(fd)
      PROVE  SlotInv'
  <2>1. fd \in Connected /\ conns[fd] \in Connection
    BY <1>5, ConnectedIsConnection DEF QuitUser, Listening, MarketInv, SessionInv
  <2> DEFINE conn == [conns[fd] EXCEPT !.closing = TRUE]
  <2>2. /\ conn \in Connection /\ conn.client = conns[fd].client
        /\ conn.type = "trader" => conn.username # NoName
    BY <2>1 DEF Connection, MarketInv, SlotInv
  <2>3. /\ conns' = [conns EXCEPT ![fd] = conn]
        /\ arrived' = arrived /\ leaving' \in {NoFd, fd}
    BY <1>5 DEF QuitUser, Replied
  <2> QED
    BY <2>1, <2>2, <2>3, SessionChangeKeepsSlots
<1>6. CASE \E fd \in Fds, side \in Book!Sides, listing \in Listings, amount \in Amounts :
             PlaceOrder(fd, side, listing, amount)
  BY <1>6, SameTableKeepsSlots DEF PlaceOrder, MarketInv, SlotInv
<1>7. CASE \E fd \in Fds, id \in OrderIds : CancelUserOrder(fd, id)
  BY <1>7, SameTableKeepsSlots DEF CancelUserOrder, Listening, Replied
<1>8. CASE \E fd \in Fds : Depart(fd)
  BY <1>8, SameTableKeepsSlots DEF Depart
<1>9. CASE \E fd \in Fds : RemoveClient(fd)
  BY <1>9, RemoveClientKeepsSlots
<1>10. CASE Walk
  BY <1>10, SameTableKeepsSlots DEF Walk, connVars, MarketInv, SlotInv
<1>11. CASE Report
  <2>1. ord # NoOrder /\ ord \in Orders
    BY <1>11 DEF Report, Book!Return, Orders
  <2>2. ord.client_fd \in Connected \cup {NoFd}
    BY <2>1, OwnersAreConnectedUnfolded DEF MarketInv, OwnerInv, OwnerIsConnected
  <2> QED
    BY <1>11, <2>2, SameTableKeepsSlots DEF Report
<1>12. CASE UNCHANGED vars
  BY <1>12, SameTableKeepsSlots DEF vars, connVars, MarketInv, SlotInv
<1> QED
  BY <1>1, <1>2, <1>3, <1>4, <1>5, <1>6, <1>7, <1>8, <1>9, <1>10, <1>11, <1>12 DEF Next

LEMMA MarketInvHolds == Spec => []MarketInv
<1>1. Init => SlotInv
  BY DEF Init, SlotInv, Connected
<1>2. Init => MarketInv
  BY <1>1, InitSessionInv, InitOwnerInv, InitKeepsBook DEF MarketInv
<1>3. MarketInv /\ [Next]_vars => MarketInv'
  BY NextKeepsSessionInv, NextKeepsOwnerInv, NextKeepsBook, NextKeepsSlots DEF MarketInv
<1> QED
  BY <1>2, <1>3, PTL DEF Spec

-----------------------------------------------------------------------------
(* What the clients see of a connection table *)

SlotsIn(table, c) == {fd \in {other \in Fds : table[other] # NoConnection} : table[fd].client = c}
PlaceIn(table, count, c) ==
  IF c > count THEN "away"
  ELSE IF \E fd \in {other \in Fds : table[other] # NoConnection} : table[fd].client = c
       THEN "here" ELSE "left"
SessionIn(table, c) ==
  IF SlotsIn(table, c) = {} THEN SessionOf(Fresh(c))
  ELSE SessionOf(table[CHOOSE fd \in SlotsIn(table, c) : TRUE])
HolderIn(table, fd) ==
  IF fd \in {other \in Fds : table[other] # NoConnection} THEN table[fd].client ELSE NoFd
Under(table, o) == [o EXCEPT !.client_fd = HolderIn(table, o.client_fd)]
OpenIn(table) == {Under(table, o) : o \in Book!AllResting}
IncomingIn(table, o) == IF o = NoOrder THEN NoOrder ELSE Under(table, o)

LEMMA Views ==
  /\ Sessions = [c \in Clients |-> SessionIn(conns, c)]
  /\ Places = [c \in Clients |-> PlaceIn(conns, arrived, c)]
  /\ {ByOwner(o) : o \in Book!AllResting} = {Under(conns, o) : o \in Book!AllResting}
  /\ (IF ord = NoOrder THEN NoOrder ELSE ByOwner(ord)) = IncomingIn(conns, ord)
  BY DEF Sessions, Places, SessionIn, PlaceIn, SlotsIn, SlotsOf, Present, Connected,
         ByOwner, Under, HolderOf, HolderIn, IncomingIn

LEMMA NextViews ==
  /\ Sessions' = [c \in Clients |-> SessionIn(conns', c)]
  /\ Places' = [c \in Clients |-> PlaceIn(conns', arrived', c)]
  /\ {ByOwner(o) : o \in Book!AllResting}' = {Under(conns', o) : o \in Book!AllResting'}
  /\ (IF ord = NoOrder THEN NoOrder ELSE ByOwner(ord))' = IncomingIn(conns', ord')
  BY DEF Sessions, Places, SessionIn, PlaceIn, SlotsIn, SlotsOf, Present, Connected,
         ByOwner, Under, HolderOf, HolderIn, IncomingIn

(* Where a client has its only slot, its session is.                       *)
LEMMA SessionInSlot ==
  ASSUME NEW table, NEW count, NEW fd \in Fds, table[fd] # NoConnection,
         \A other \in Fds : table[other] # NoConnection /\ table[other].client = table[fd].client
                              => other = fd
  PROVE  /\ SessionIn(table, table[fd].client) = SessionOf(table[fd])
         /\ ~(table[fd].client > count) => PlaceIn(table, count, table[fd].client) = "here"
<1>1. SlotsIn(table, table[fd].client) = {fd}
  BY DEF SlotsIn
<1>2. (CHOOSE other \in {fd} : TRUE) = fd
  OBVIOUS
<1> QED
  BY <1>1, <1>2 DEF SessionIn, PlaceIn

LEMMA NoSlotNoSession ==
  ASSUME NEW table, NEW count, NEW c,
         \A fd \in Fds : table[fd] # NoConnection => table[fd].client # c
  PROVE  /\ SessionIn(table, c) = SessionOf(Fresh(c))
         /\ PlaceIn(table, count, c) = IF c > count THEN "away" ELSE "left"
<1>1. SlotsIn(table, c) = {}
  BY DEF SlotsIn
<1> QED
  BY <1>1 DEF SessionIn, PlaceIn

(* Two tables in which a client has the same slots show it the same.       *)
SameSlots(one, other, c) ==
  \A fd \in Fds :
    /\ (one[fd] # NoConnection /\ one[fd].client = c) <=>
         (other[fd] # NoConnection /\ other[fd].client = c)
    /\ one[fd] # NoConnection /\ one[fd].client = c => one[fd] = other[fd]

LEMMA SameSlotsSameSession ==
  ASSUME NEW one, NEW other, NEW c, SameSlots(one, other, c)
  PROVE  SessionIn(one, c) = SessionIn(other, c)
<1>1. SlotsIn(one, c) = SlotsIn(other, c)
  BY DEF SlotsIn, SameSlots
<1>2. CASE SlotsIn(one, c) = {}
  BY <1>1, <1>2 DEF SessionIn
<1>3. CASE SlotsIn(one, c) # {}
  <2>1. PICK slot : slot = CHOOSE fd \in SlotsIn(one, c) : TRUE
    OBVIOUS
  <2>2. slot \in SlotsIn(one, c)
    BY <1>3, <2>1
  <2>3. one[slot] = other[slot]
    BY <2>2 DEF SlotsIn, SameSlots
  <2> QED
    BY <1>1, <1>3, <2>1, <2>3 DEF SessionIn
<1> QED
  BY <1>2, <1>3

LEMMA NewcomerIsFresh ==
  ASSUME NEW c PROVE SessionOf(Fresh(c)) = Market!Newcomer
  BY DEF SessionOf, Fresh, Market!Newcomer

(* An order is under its owner what it is under its descriptor, but for    *)
(* who it names.                                                           *)
LEMMA UnderFields ==
  ASSUME NEW o \in Book!Order, NEW table
  PROVE  /\ Under(table, o).id = o.id /\ Under(table, o).quantity = o.quantity
         /\ Under(table, o).price = o.price /\ Under(table, o).type = o.type
         /\ Under(table, o).instrument = o.instrument
         /\ Under(table, o).client_fd = HolderIn(table, o.client_fd)
         /\ o.id \in OrderIds /\ o.quantity \in Nat /\ o.price \in Nat
         /\ o.type \in Book!Sides /\ o.instrument \in Instruments
         /\ o.client_fd \in Fds \cup {NoFd}
         /\ Under(table, o) =
              [id |-> o.id, quantity |-> o.quantity, price |-> o.price,
               client_fd |-> HolderIn(table, o.client_fd), type |-> o.type,
               instrument |-> o.instrument]
  BY DEF Book!Order, Under, OrderIds, Instruments

LEMMA UnderIsAnOrder ==
  ASSUME NEW table \in [Fds -> Connection \cup {NoConnection}], NEW o \in Book!Order
  PROVE  Under(table, o) # NoOrder
<1>1. HolderIn(table, o.client_fd) \in Clients \cup {NoFd}
  BY DEF HolderIn, Connection
<1>2. Under(table, o) \in OwnedOrder
  BY <1>1, UnderFields DEF OwnedOrder
<1> QED
  BY <1>2, OwnerAssumption

LEMMA UnderReduced ==
  ASSUME NEW table, NEW o \in Book!Order, NEW quantity
  PROVE  Under(table, [o EXCEPT !.quantity = o.quantity - quantity]) =
           [Under(table, o) EXCEPT !.quantity = Under(table, o).quantity - quantity]
  BY DEF Book!Order, Under

-----------------------------------------------------------------------------
(* The book, with owners for descriptors *)

LEMMA BookFacts ==
  ASSUME MarketInv
  PROVE  /\ \A o \in Book!AllResting : o \in Book!Order
         /\ \A o, p \in Book!AllResting : o.id = p.id => o = p
         /\ ord # NoOrder => ord \in Book!Order
         /\ conns \in [Fds -> Connection \cup {NoConnection}]
<1>1. /\ \A o \in Ref!AllResting : o \in Ref!Order
      /\ \A o, p \in Ref!AllResting : o.id = p.id => o = p
      /\ ord # NoOrder => ord \in Ref!Order
  BY Ref!RestingFacts, RefHypotheses DEF MarketInv
<1>2. conns \in [Fds -> Connection \cup {NoConnection}]
  BY DEF MarketInv, SessionInv, SessionTypes
<1> QED
  BY <1>1, <1>2, SameResting, SameOrders

(* Who holds what does not decide what executes: identifiers, prices and   *)
(* quantities do, and they stay.                                           *)
LEMMA ExecuteUnderOwners ==
  ASSUME MarketInv, conns' = conns, NEW p \in Book!AllResting, Ref!Matching!Execute(p)
  PROVE  Under(conns, p) \in {ByOwner(o) : o \in Book!AllResting}
         /\ Market!Book!Execute(Under(conns, p))
<1> DEFINE h(o) == Under(conns, o)
           open == Book!AllResting
           reduced(o, quantity) == [o EXCEPT !.quantity = o.quantity - quantity]
           left(o) == IF o.quantity > 0 THEN {o} ELSE {}
<1>1. /\ \A o \in open : o \in Book!Order
      /\ \A o, q \in open : o.id = q.id => o = q
      /\ conns \in [Fds -> Connection \cup {NoConnection}]
  BY BookFacts
<1>2. /\ ord # NoOrder
      /\ p.instrument = ord.instrument /\ p.type # ord.type /\ p.price = ord.price
      /\ \A q \in open : q.instrument = ord.instrument /\ q.type # ord.type
                         /\ q.price = ord.price => p.id <= q.id
      /\ next_order_id' = next_order_id
  BY SameResting DEF Ref!Matching!Execute, Ref!Matching!Oldest, Ref!Matching!Matches
<1>3. PICK quantity \in 1 .. ord.quantity :
        /\ quantity <= p.quantity
        /\ quantity = p.quantity \/ quantity = ord.quantity
        /\ ord' = reduced(ord, quantity)
        /\ open' = (open \ {p}) \cup left(reduced(p, quantity))
  BY SameResting DEF Ref!Matching!Execute, Ref!Matching!Reduced, Ref!Matching!Left
<1>4. ord \in Book!Order /\ p \in Book!Order /\ ord' # NoOrder
  <2>1. ord \in Book!Order /\ p \in Book!Order
    BY <1>1, <1>2, BookFacts
  <2>2. ord.quantity - quantity \in Nat
    BY <1>3, <2>1 DEF Book!Order
  <2>3. ord' \in Book!Order
    BY <1>3, <2>1, <2>2 DEF Book!Order
  <2> QED
    BY <2>1, <2>3, BookAssumption
<1>5. PICK before, after :
        /\ before = {h(o) : o \in open} /\ after = {h(o) : o \in open'}
        /\ {ByOwner(o) : o \in Book!AllResting} = before
        /\ {ByOwner(o) : o \in Book!AllResting}' = after
        /\ (IF ord = NoOrder THEN NoOrder ELSE ByOwner(ord)) = h(ord)
        /\ (IF ord = NoOrder THEN NoOrder ELSE ByOwner(ord))' = h(ord')
  BY <1>2, <1>4, Views, NextViews DEF IncomingIn
<1>6. h(ord) # NoOrder /\ h(p) \in before
  BY <1>1, <1>4, <1>5, UnderIsAnOrder
<1>7. \A o \in Book!Order : /\ h(o).id = o.id /\ h(o).quantity = o.quantity
                            /\ h(o).price = o.price /\ h(o).type = o.type
                            /\ h(o).instrument = o.instrument /\ o.quantity \in Nat
                            /\ \A n : h(reduced(o, n)) = reduced(h(o), n)
  <2> TAKE o \in Book!Order
  <2>1. /\ h(o).id = o.id /\ h(o).quantity = o.quantity
        /\ h(o).price = o.price /\ h(o).type = o.type
        /\ h(o).instrument = o.instrument /\ o.quantity \in Nat
    BY UnderFields
  <2>2. \A n : h(reduced(o, n)) = reduced(h(o), n)
    BY UnderReduced
  <2> QED
    BY <2>1, <2>2
<1>8. /\ h(p).instrument = h(ord).instrument /\ h(p).type # h(ord).type
      /\ h(p).price = h(ord).price
      /\ \A q \in before : q.instrument = h(ord).instrument /\ q.type # h(ord).type
                           /\ q.price = h(ord).price => h(p).id <= q.id
  BY <1>1, <1>2, <1>4, <1>5, <1>7
<1>9. h(ord') = reduced(h(ord), quantity)
  BY <1>3, <1>4, <1>7
<1>10. after = (before \ {h(p)}) \cup left(reduced(h(p), quantity))
  <2>1. \A o \in open : h(o) = h(p) => o = p
    BY <1>1, <1>4, <1>7
  <2>2. {h(o) : o \in open \ {p}} = before \ {h(p)}
    BY <1>5, <2>1
  <2>3. reduced(p, quantity).quantity = reduced(h(p), quantity).quantity
    BY <1>4, <1>7 DEF Under, Book!Order
  <2>4. {h(o) : o \in left(reduced(p, quantity))} = left(reduced(h(p), quantity))
    <3>1. h(reduced(p, quantity)) = reduced(h(p), quantity)
      BY <1>4, <1>7
    <3> HIDE DEF reduced, h
    <3> QED
      BY <2>3, <3>1
  <2> HIDE DEF h, reduced, left
  <2> QED
    BY <1>3, <1>5, <2>2, <2>4
<1>11. /\ quantity \in 1 .. h(ord).quantity /\ quantity <= h(p).quantity
       /\ quantity = h(p).quantity \/ quantity = h(ord).quantity
  BY <1>3, <1>4, <1>7
<1>12. PICK mine, new : mine = h(p) /\ new = h(ord)
  OBVIOUS
<1> HIDE DEF h
<1>13. mine \in Market!Book!Oldest(Market!Book!Matches(new))
  BY <1>5, <1>6, <1>8, <1>12 DEF Market!Book!Oldest, Market!Book!Matches
<1>14. Market!Book!Reduced(new, quantity) = reduced(new, quantity)
       /\ Market!Book!Left(Market!Book!Reduced(mine, quantity)) = left(reduced(mine, quantity))
  BY DEF Market!Book!Reduced, Market!Book!Left
<1> HIDE DEF reduced, left
<1>15. Market!Book!Execute(mine)
  <2>1. new # NoOrder /\ mine \in Market!Book!Oldest(Market!Book!Matches(new))
    BY <1>6, <1>12, <1>13
  <2>2. /\ quantity \in 1 .. new.quantity /\ quantity <= mine.quantity
        /\ quantity = mine.quantity \/ quantity = new.quantity
    BY <1>11, <1>12
  <2>3. h(ord') = Market!Book!Reduced(new, quantity)
    BY <1>9, <1>12, <1>14
  <2>4. after = (before \ {mine}) \cup Market!Book!Left(Market!Book!Reduced(mine, quantity))
    BY <1>10, <1>12, <1>14
  <2> QED
    BY <1>2, <1>5, <1>12, <2>1, <2>2, <2>3, <2>4, Zenon DEF Market!Book!Execute
<1> QED
  BY <1>5, <1>6, <1>12, <1>15 DEF h

LEMMA SettleUnderOwners ==
  ASSUME MarketInv, conns' = conns, Ref!Matching!Settle
  PROVE  Market!Book!Settle
<1> DEFINE h(o) == Under(conns, o)
           open == Book!AllResting
<1>1. /\ ord # NoOrder /\ ord' = NoOrder /\ next_order_id' = next_order_id
      /\ open' = open \cup (IF ord.quantity > 0 THEN {ord} ELSE {})
      /\ ord.quantity > 0 =>
           \A q \in open : ~(q.instrument = ord.instrument /\ q.type # ord.type
                             /\ q.price = ord.price)
  BY SameResting DEF Ref!Matching!Settle, Ref!Matching!Matches, Ref!Matching!Left
<1>2. ord \in Book!Order /\ \A o \in open : o \in Book!Order
  BY <1>1, BookFacts
<1>3. PICK before, after, new :
        /\ before = {h(o) : o \in open} /\ after = {h(o) : o \in open'}
        /\ {ByOwner(o) : o \in Book!AllResting} = before
        /\ {ByOwner(o) : o \in Book!AllResting}' = after
        /\ new = h(ord)
        /\ (IF ord = NoOrder THEN NoOrder ELSE ByOwner(ord)) = new
  <2>1. {ByOwner(o) : o \in Book!AllResting} = {h(o) : o \in open}
    BY Views
  <2>2. {ByOwner(o) : o \in Book!AllResting}' = {h(o) : o \in open'}
    BY NextViews
  <2>3. (IF ord = NoOrder THEN NoOrder ELSE ByOwner(ord)) = h(ord)
    BY <1>1, Views DEF IncomingIn
  <2> QED
    BY <2>1, <2>2, <2>3, Zenon
<1>4. (IF ord = NoOrder THEN NoOrder ELSE ByOwner(ord))' = NoOrder
  BY <1>1
<1>5. \A o \in Book!Order : /\ h(o).quantity = o.quantity /\ h(o).price = o.price
                            /\ h(o).type = o.type /\ h(o).instrument = o.instrument
  BY UnderFields
<1>6. new # NoOrder
  BY <1>2, <1>3, BookFacts, UnderIsAnOrder
<1>7. new.quantity > 0 => Market!Book!Matches(new) = {}
  BY <1>1, <1>2, <1>3, <1>5 DEF Market!Book!Matches
<1> HIDE DEF h
<1>8. after = before \cup Market!Book!Left(new)
  BY <1>1, <1>2, <1>3, <1>5 DEF Market!Book!Left
<1> QED
  BY <1>1, <1>3, <1>4, <1>6, <1>7, <1>8, Zenon DEF Market!Book!Settle

(* The sessions do not change with the book.                               *)
LEMMA SameTableSameSessions ==
  ASSUME UNCHANGED <<conns, arrived>>
  PROVE  Sessions' = Sessions /\ Places' = Places
  BY Views, NextViews

LEMMA SameTableSameOwners ==
  ASSUME UNCHANGED <<conns, bookVars>>
  PROVE  /\ {ByOwner(o) : o \in Book!AllResting}' = {ByOwner(o) : o \in Book!AllResting}
         /\ (IF ord = NoOrder THEN NoOrder ELSE ByOwner(ord))' =
              (IF ord = NoOrder THEN NoOrder ELSE ByOwner(ord))
         /\ next_order_id' = next_order_id
<1>1. /\ Book!AllResting' = Book!AllResting /\ ord' = ord /\ conns' = conns
      /\ next_order_id' = next_order_id
  BY DEF bookVars, Book!AllResting, Book!RestingIn
<1> QED
  BY <1>1, Views, NextViews

LEMMA WalkRefines ==
  ASSUME MarketInv, Walk
  PROVE  Market!Match \/ UNCHANGED Market!vars
<1>1. UNCHANGED <<conns, arrived>> /\ Sessions' = Sessions /\ Places' = Places
  BY SameTableSameSessions DEF Walk, connVars
<1>2. CASE Book!Skip
  <2>1. /\ {ByOwner(o) : o \in Book!AllResting}' = {ByOwner(o) : o \in Book!AllResting}
        /\ (IF ord = NoOrder THEN NoOrder ELSE ByOwner(ord))' =
             (IF ord = NoOrder THEN NoOrder ELSE ByOwner(ord))
        /\ next_order_id' = next_order_id
    <3>1. /\ Book!AllResting' = Book!AllResting /\ ord' = ord /\ conns' = conns
          /\ next_order_id' = next_order_id
      BY <1>1, <1>2 DEF Book!Skip, Book!AllResting, Book!RestingIn
    <3> QED
      BY <3>1, Views, NextViews
  <2> QED
    BY <1>1, <2>1, Zenon DEF Market!vars, Market!book
<1>3. CASE Book!ExecuteAll \/ Book!ExecutePart
  <2>1. PICK p \in Book!AllResting : Ref!Matching!Execute(p)
    <3>1. Ref!ExecuteAll \/ Ref!ExecutePart
      BY <1>3, SameOperations
    <3> QED
      BY <3>1, SameResting, Ref!ExecuteAllRefines, Ref!ExecutePartRefines, RefHypotheses
         DEF MarketInv
  <2>2. /\ Under(conns, p) \in {ByOwner(o) : o \in Book!AllResting}
        /\ Market!Book!Execute(Under(conns, p))
    BY <1>1, <2>1, ExecuteUnderOwners
  <2> QED
    BY <1>1, <2>2, Zenon DEF Market!Match
<1> QED
  BY <1>2, <1>3 DEF Walk

LEMMA ReportRefines ==
  ASSUME MarketInv, Report
  PROVE  Market!Match
<1>1. UNCHANGED <<conns, arrived>> /\ Sessions' = Sessions /\ Places' = Places
  BY SameTableSameSessions DEF Report
<1>2. Ref!Matching!Settle
  <2>1. Ref!Return
    BY SameOperations DEF Report
  <2> QED
    BY <2>1, Ref!ReturnRefines, RefHypotheses DEF MarketInv
<1>3. Market!Book!Settle
  BY <1>1, <1>2, SettleUnderOwners
<1> QED
  BY <1>1, <1>3, Zenon DEF Market!Match

-----------------------------------------------------------------------------
(* The sessions, with clients for slots *)

LEMMA Here ==
  ASSUME MarketInv, NEW fd \in Connected
  PROVE  /\ fd \in Fds /\ conns[fd] \in Connection /\ conns[fd].client \in Clients
         /\ conns[fd].client # NoFd
         /\ Sessions[conns[fd].client] = SessionOf(conns[fd])
         /\ Places[conns[fd].client] = "here"
         /\ HolderIn(conns, fd) = conns[fd].client
<1>1. fd \in Fds /\ conns[fd] \in Connection /\ conns[fd] # NoConnection
  BY ConnectedIsConnection DEF MarketInv, SessionInv, Connected
<1>2. conns[fd].client \in Clients /\ conns[fd].client # NoFd
  BY <1>1, OwnerAssumption DEF Connection
<1>3. \A other \in Fds :
        conns[other] # NoConnection /\ conns[other].client = conns[fd].client => other = fd
  BY DEF MarketInv, SlotInv, Connected
<1>4. ~(conns[fd].client > arrived)
  <2>1. conns[fd].client <= arrived /\ conns[fd].client \in Int /\ arrived \in Int
    BY <1>2, BoundAssumption DEF MarketInv, SlotInv, SessionInv, SessionTypes, Clients
  <2> QED
    BY <2>1
<1>5. /\ SessionIn(conns, conns[fd].client) = SessionOf(conns[fd])
      /\ PlaceIn(conns, arrived, conns[fd].client) = "here"
  BY <1>1, <1>3, <1>4, SessionInSlot
<1>6. HolderIn(conns, fd) = conns[fd].client
  BY <1>1 DEF HolderIn
<1> QED
  BY <1>1, <1>2, <1>5, <1>6, Views

LEMMA SessionFields ==
  ASSUME NEW conn \in Connection
  PROVE  /\ SessionOf(conn).type = conn.type /\ SessionOf(conn).username = conn.username
         /\ SessionOf(conn).subscribed = conn.subscribed
         /\ SessionOf(conn).closing = conn.closing
  BY DEF SessionOf

(* What a command makes of a connection it makes of the session.           *)
Session(t, u, s, c) == [type |-> t, username |-> u, subscribed |-> s, closing |-> c]

LEMMA LoginUpdates ==
  ASSUME NEW conn \in Connection, NEW name
  PROVE  SessionOf(LoggedIn(conn, name)) =
           [SessionOf(conn) EXCEPT !.type = "trader", !.username = name]
<1>1. PICK r, typed : r = SessionOf(conn) /\ typed = [r EXCEPT !.type = "trader"]
  OBVIOUS
<1>2. r = Session(conn.type, conn.username, conn.subscribed, conn.closing)
  BY <1>1 DEF SessionOf, Session
<1>3. typed = Session("trader", conn.username, conn.subscribed, conn.closing)
  BY <1>1, <1>2 DEF Session
<1>4. [typed EXCEPT !.username = name] = Session("trader", name, conn.subscribed, conn.closing)
  BY <1>3 DEF Session
<1>5. [r EXCEPT !.type = "trader", !.username = name] =
        [[r EXCEPT !.type = "trader"] EXCEPT !.username = name]
  BY <1>2 DEF Session
<1>6. SessionOf(LoggedIn(conn, name)) =
        Session("trader", name, conn.subscribed, conn.closing)
  BY DEF SessionOf, Session, LoggedIn, Connection
<1> QED
  BY <1>1, <1>4, <1>5, <1>6

LEMMA FollowUpdates ==
  ASSUME NEW conn \in Connection, NEW instruments
  PROVE  SessionOf([conn EXCEPT !.type = "market", !.subscribed = instruments]) =
           [SessionOf(conn) EXCEPT !.type = "market", !.subscribed = instruments]
<1>1. PICK r, typed : r = SessionOf(conn) /\ typed = [r EXCEPT !.type = "market"]
  OBVIOUS
<1>2. r = Session(conn.type, conn.username, conn.subscribed, conn.closing)
  BY <1>1 DEF SessionOf, Session
<1>3. typed = Session("market", conn.username, conn.subscribed, conn.closing)
  BY <1>1, <1>2 DEF Session
<1>4. [typed EXCEPT !.subscribed = instruments] = Session("market", conn.username, instruments, conn.closing)
  BY <1>3 DEF Session
<1>5. [r EXCEPT !.type = "market", !.subscribed = instruments] =
        [[r EXCEPT !.type = "market"] EXCEPT !.subscribed = instruments]
  BY <1>2 DEF Session
<1>6. SessionOf([conn EXCEPT !.type = "market", !.subscribed = instruments]) =
        Session("market", conn.username, instruments, conn.closing)
  BY DEF SessionOf, Session, LoggedIn, Connection
<1> QED
  BY <1>1, <1>4, <1>5, <1>6

LEMMA QuitUpdates ==
  ASSUME NEW conn \in Connection
  PROVE  SessionOf([conn EXCEPT !.closing = TRUE]) = [SessionOf(conn) EXCEPT !.closing = TRUE]
<1>1. PICK r, b : r = SessionOf(conn) /\ b = TRUE
  OBVIOUS
<1>2. r = Session(conn.type, conn.username, conn.subscribed, conn.closing)
  BY <1>1 DEF SessionOf, Session
<1>3. [r EXCEPT !.closing = b] = Session(conn.type, conn.username, conn.subscribed, b)
  BY <1>2 DEF Session
<1>4. SessionOf([conn EXCEPT !.closing = b]) =
        Session(conn.type, conn.username, conn.subscribed, b)
  BY DEF SessionOf, Session, Connection
<1> QED
  BY <1>1, <1>3, <1>4

(* A command that changes its own connection is its own client's.          *)
LEMMA CommandBecomes ==
  ASSUME MarketInv, NEW fd \in Connected, ~conns[fd].closing, NEW conn \in Connection,
         conns' = [conns EXCEPT ![fd] = conn], conn.client = conns[fd].client,
         arrived' = arrived, UNCHANGED bookVars
  PROVE  /\ Market!Heard(conns[fd].client)
         /\ Market!Becomes(conns[fd].client, SessionOf(conn))
<1>1. PICK c : c = conns[fd].client
  OBVIOUS
<1>2. /\ fd \in Fds /\ c \in Clients /\ Sessions[c] = SessionOf(conns[fd])
      /\ Places[c] = "here" /\ conns[fd] \in Connection
  BY <1>1, Here
<1>3. /\ conns' \in [Fds -> Connection \cup {NoConnection}]
      /\ conns'[fd] = conn
      /\ \A other \in Fds \ {fd} : conns'[other] = conns[other]
      /\ conn # NoConnection /\ conns[fd] # NoConnection
  BY <1>2, UpdatedSlot, NamingAssumption DEF MarketInv, SessionInv
<1>4. \A x \in Fds : /\ conns'[x] # NoConnection <=> conns[x] # NoConnection
                     /\ conns'[x] # NoConnection => conns'[x].client = conns[x].client
  BY <1>3
<1>5. \A x : HolderIn(conns', x) = HolderIn(conns, x)
  BY <1>4 DEF HolderIn
<1>6. SessionIn(conns', c) = SessionOf(conn)
  <2>1. conns'[fd] # NoConnection /\ conns'[fd].client = c
    BY <1>1, <1>3
  <2>2. \A other \in Fds :
          conns'[other] # NoConnection /\ conns'[other].client = conns'[fd].client => other = fd
    BY <1>1, <1>3, <1>4 DEF MarketInv, SlotInv, Connected
  <2>3. SessionIn(conns', conns'[fd].client) = SessionOf(conns'[fd])
    BY <1>2, <1>3, <2>1, <2>2, SessionInSlot
  <2> QED
    BY <1>3, <2>1, <2>3
<1>7. \A x \in Clients : /\ x # c => SessionIn(conns', x) = SessionIn(conns, x)
                         /\ PlaceIn(conns', arrived, x) = PlaceIn(conns, arrived, x)
  <2> TAKE x \in Clients
  <2>1. PlaceIn(conns', arrived, x) = PlaceIn(conns, arrived, x)
    BY <1>4 DEF PlaceIn
  <2>2. ASSUME x # c PROVE SessionIn(conns', x) = SessionIn(conns, x)
    <3>1. \A y \in Fds : (conns'[y] # NoConnection /\ conns'[y].client = x) <=>
                         (conns[y] # NoConnection /\ conns[y].client = x)
      BY <1>4
    <3>2. \A y \in Fds : conns'[y] # NoConnection /\ conns'[y].client = x => conns'[y] = conns[y]
      BY <1>1, <1>3, <2>2
    <3>3. SameSlots(conns', conns, x)
      BY <3>1, <3>2 DEF SameSlots
    <3> QED
      BY <3>3, SameSlotsSameSession
  <2> QED
    BY <2>1, <2>2
<1>8. Sessions' = [Sessions EXCEPT ![c] = SessionOf(conn)] /\ Sessions'[c] = SessionOf(conn)
  BY <1>2, <1>6, <1>7, Views, NextViews
<1>9. Places' = Places
  BY <1>7, Views, NextViews
<1>10. /\ {ByOwner(o) : o \in Book!AllResting}' = {ByOwner(o) : o \in Book!AllResting}
       /\ (IF ord = NoOrder THEN NoOrder ELSE ByOwner(ord))' =
            (IF ord = NoOrder THEN NoOrder ELSE ByOwner(ord))
       /\ next_order_id' = next_order_id
  <2>1. /\ Book!AllResting' = Book!AllResting /\ ord' = ord
        /\ next_order_id' = next_order_id
    BY DEF bookVars, Book!AllResting, Book!RestingIn
  <2>2. \A o : Under(conns', o) = Under(conns, o)
    BY <1>5 DEF Under
  <2>3. IncomingIn(conns', ord') = IncomingIn(conns, ord)
    BY <2>1, <2>2 DEF IncomingIn
  <2>4. {Under(conns', o) : o \in Book!AllResting'} = {Under(conns, o) : o \in Book!AllResting}
    BY <2>1, <2>2
  <2> QED
    BY <2>1, <2>3, <2>4, Views, NextViews, Zenon
<1>11. Market!Becomes(c, SessionOf(conn))
  BY <1>8, <1>9, <1>10, Zenon DEF Market!Becomes, Market!book
<1>12. Market!Heard(c)
  BY <1>2, SessionFields DEF Market!Heard, Market!Here
<1> QED
  BY <1>1, <1>11, <1>12

LEMMA LoginRefines ==
  ASSUME MarketInv, NEW fd \in Fds, NEW name \in Names, LoginUser(fd, name)
  PROVE  \E c \in Clients : Market!Command(c)
<1>1. /\ fd \in Connected /\ ~conns[fd].closing /\ arrived' = arrived /\ UNCHANGED bookVars
      /\ conns[fd].type # "market" /\ conns[fd].username = NoName
      /\ conns' = [conns EXCEPT ![fd] = LoggedIn(conns[fd], name)]
  BY DEF LoginUser, Listening
<1>2. PICK c : c = conns[fd].client
  OBVIOUS
<1>3. c \in Clients /\ Sessions[c] = SessionOf(conns[fd]) /\ conns[fd] \in Connection
  BY <1>1, <1>2, Here
<1>4. LoggedIn(conns[fd], name) \in Connection /\ LoggedIn(conns[fd], name).client = c
  BY <1>2, <1>3 DEF LoggedIn, Connection
<1>5. Market!Heard(c) /\ Market!Becomes(c, SessionOf(LoggedIn(conns[fd], name)))
  BY <1>1, <1>2, <1>4, CommandBecomes
<1>6. SessionOf(LoggedIn(conns[fd], name)) =
        [SessionOf(conns[fd]) EXCEPT !.type = "trader", !.username = name]
  BY <1>3, LoginUpdates
<1>7. Sessions[c].type = "none"
  BY <1>1, <1>3, SessionFields DEF MarketInv, SlotInv, Connection
<1>8. ~Market!Taken(name)
  <2> SUFFICES ASSUME NEW x \in Clients, Places[x] = "here", Sessions[x].username = name
               PROVE  FALSE
    BY DEF Market!Taken, Market!Here
  <2>1. PICK other \in Connected : conns[other].client = x
    BY Views DEF PlaceIn, Connected
  <2>2. conns[other].username = name
    BY <2>1, Here, SessionFields
  <2> QED
    BY <2>2 DEF LoginUser, NameInUse
<1>9. Market!Login(c, name)
  BY <1>3, <1>5, <1>6, <1>7, <1>8 DEF Market!Login
<1> QED
  BY <1>3, <1>5, <1>9 DEF Market!Command

LEMMA FollowRefines ==
  ASSUME MarketInv, NEW fd \in Fds, NEW instrument \in Instruments,
         SubscribeClient(fd, instrument) \/ UnsubscribeClient(fd, instrument)
  PROVE  \E c \in Clients : Market!Command(c)
<1>1. /\ fd \in Connected /\ ~conns[fd].closing /\ arrived' = arrived /\ UNCHANGED bookVars
      /\ conns[fd].type # "trader"
  BY DEF SubscribeClient, UnsubscribeClient, Listening
<1>2. PICK c : c = conns[fd].client
  OBVIOUS
<1>3. /\ c \in Clients /\ Sessions[c] = SessionOf(conns[fd]) /\ conns[fd] \in Connection
      /\ conns[fd].subscribed \subseteq Instruments
  BY <1>1, <1>2, Here DEF Connection
<1>4. PICK instruments \in SUBSET Instruments :
        conns' = [conns EXCEPT ![fd] = [conns[fd] EXCEPT !.type = "market",
                                                         !.subscribed = instruments]]
  <2>1. CASE SubscribeClient(fd, instrument)
    BY <1>3, <2>1 DEF SubscribeClient, Subscribed
  <2>2. CASE UnsubscribeClient(fd, instrument)
    <3>1. conns[fd].type = "market"
      BY <1>1, <2>2 DEF UnsubscribeClient, MarketInv, SessionInv, RolesExclusive
    <3>2. [conns[fd] EXCEPT !.subscribed = conns[fd].subscribed \ {instrument}] =
            [conns[fd] EXCEPT !.type = "market",
                              !.subscribed = conns[fd].subscribed \ {instrument}]
      BY <1>3, <3>1 DEF Connection
    <3>3. conns' = [conns EXCEPT ![fd] =
                      [conns[fd] EXCEPT !.subscribed = conns[fd].subscribed \ {instrument}]]
      BY <2>2 DEF UnsubscribeClient
    <3> QED
      BY <1>3, <3>2, <3>3
  <2> QED
    BY <2>1, <2>2
<1>5. PICK conn : conn = [conns[fd] EXCEPT !.type = "market", !.subscribed = instruments]
  OBVIOUS
<1>6. conn \in Connection /\ conn.client = c /\ conns' = [conns EXCEPT ![fd] = conn]
  BY <1>2, <1>3, <1>4, <1>5 DEF Connection
<1>7. Market!Heard(c) /\ Market!Becomes(c, SessionOf(conn))
  BY <1>1, <1>2, <1>6, CommandBecomes
<1>8. SessionOf(conn) = [SessionOf(conns[fd]) EXCEPT !.type = "market", !.subscribed = instruments]
  BY <1>3, <1>5, FollowUpdates
<1>9. Sessions[c].type # "trader"
  BY <1>1, <1>3, SessionFields
<1>10. Market!Follow(c, instruments)
  BY <1>3, <1>7, <1>8, <1>9 DEF Market!Follow
<1> QED
  BY <1>3, <1>7, <1>10 DEF Market!Command

LEMMA QuitRefines ==
  ASSUME MarketInv, NEW fd \in Fds, QuitUser(fd)
  PROVE  \E c \in Clients : Market!Command(c)
<1>1. /\ fd \in Connected /\ ~conns[fd].closing /\ arrived' = arrived /\ UNCHANGED bookVars
      /\ conns' = [conns EXCEPT ![fd] = [conns[fd] EXCEPT !.closing = TRUE]]
  BY DEF QuitUser, Listening
<1>2. PICK c, conn : c = conns[fd].client /\ conn = [conns[fd] EXCEPT !.closing = TRUE]
  OBVIOUS
<1>3. c \in Clients /\ Sessions[c] = SessionOf(conns[fd]) /\ conns[fd] \in Connection
  BY <1>1, <1>2, Here
<1>4. conn \in Connection /\ conn.client = c /\ conns' = [conns EXCEPT ![fd] = conn]
  BY <1>1, <1>2, <1>3 DEF Connection
<1>5. Market!Heard(c) /\ Market!Becomes(c, SessionOf(conn))
  BY <1>1, <1>2, <1>4, CommandBecomes
<1>6. SessionOf(conn) = [SessionOf(conns[fd]) EXCEPT !.closing = TRUE]
  BY <1>2, <1>3, QuitUpdates
<1>7. Market!Quit(c)
  BY <1>3, <1>5, <1>6 DEF Market!Quit
<1> QED
  BY <1>3, <1>5, <1>7 DEF Market!Command

(* A newcomer is the next client to arrive, whichever descriptor it gets,  *)
(* and finds a session and orders of nobody else's there.                  *)
LEMMA ConnectRefines ==
  ASSUME MarketInv, Connect
  PROVE  \E c \in Clients : Market!Arrive(c)
<1>1. PICK fd, c : fd = Min(Fds \ Connected) /\ c = arrived + 1
  OBVIOUS
<1>2. fd \in Fds \ Connected /\ c \in Clients /\ arrived \in Nat
  <2>1. fd \in Fds \ Connected
    BY <1>1, LowestFreeIsFree DEF Connect
  <2>2. c \in Clients /\ arrived \in Nat
    BY <1>1, BoundAssumption DEF Connect, Clients, MarketInv, SessionInv, SessionTypes
  <2> QED
    BY <2>1, <2>2
<1>3. /\ conns' = [conns EXCEPT ![fd] = Fresh(c)] /\ arrived' = c /\ UNCHANGED bookVars
      /\ ord = NoOrder
  BY <1>1 DEF Connect, Idle
<1>4. /\ conns'[fd] = Fresh(c)
      /\ \A other \in Fds \ {fd} : conns'[other] = conns[other]
      /\ Fresh(c) # NoConnection /\ conns[fd] = NoConnection /\ Fresh(c).client = c
  <2>1. Fresh(c) \in Connection /\ Fresh(c).client = c
    BY <1>2, FreshIsConnection DEF Fresh
  <2> QED
    BY <1>2, <1>3, <2>1, UpdatedSlot, NamingAssumption
       DEF MarketInv, SessionInv, Connected
<1>5. \A x \in Fds : conns[x] # NoConnection => conns[x].client \in Nat /\ conns[x].client <= arrived
  <2>1. \A x \in Connected : conns[x].client \in Clients
    BY Here
  <2> QED
    BY <2>1, BoundAssumption DEF MarketInv, SlotInv, Connected, Clients
<1>6. /\ SessionIn(conns, c) = SessionOf(Fresh(c))
      /\ PlaceIn(conns, arrived, c) = "away"
  <2>1. \A x \in Fds : conns[x] # NoConnection => conns[x].client # c
    BY <1>1, <1>2, <1>5
  <2>2. c > arrived
    BY <1>1, <1>2
  <2> QED
    BY <2>1, <2>2, NoSlotNoSession
<1>7. /\ SessionIn(conns', c) = SessionOf(Fresh(c))
      /\ PlaceIn(conns', arrived', c) = "here"
  <2>1. \A other \in Fds :
          conns'[other] # NoConnection /\ conns'[other].client = conns'[fd].client => other = fd
    BY <1>1, <1>2, <1>4, <1>5
  <2>2. ~(conns'[fd].client > arrived')
    BY <1>1, <1>2, <1>3, <1>4
  <2>3. conns'[fd] # NoConnection /\ fd \in Fds
    BY <1>2, <1>4
  <2>4. /\ SessionIn(conns', conns'[fd].client) = SessionOf(conns'[fd])
        /\ PlaceIn(conns', arrived', conns'[fd].client) = "here"
    BY <2>1, <2>2, <2>3, SessionInSlot
  <2> QED
    BY <1>4, <2>4
<1>8. ASSUME NEW x \in Clients, x # c
      PROVE  /\ SessionIn(conns', x) = SessionIn(conns, x)
             /\ PlaceIn(conns', arrived', x) = PlaceIn(conns, arrived, x)
  <2>1. SameSlots(conns', conns, x)
    BY <1>4, <1>8 DEF SameSlots
  <2>2. x > arrived' <=> x > arrived
    BY <1>1, <1>2, <1>3, <1>8, BoundAssumption DEF Clients
  <2>3. PlaceIn(conns', arrived', x) = PlaceIn(conns, arrived, x)
    BY <2>1, <2>2 DEF PlaceIn, SameSlots
  <2> QED
    BY <2>1, <2>3, SameSlotsSameSession
<1>9. Sessions' = Sessions
  BY <1>6, <1>7, <1>8, Views, NextViews
<1>10. Places[c] = "away" /\ Places' = [Places EXCEPT ![c] = "here"]
  BY <1>2, <1>6, <1>7, <1>8, Views, NextViews
<1>11. Book!AllResting' = Book!AllResting /\ ord' = ord /\ next_order_id' = next_order_id
  BY <1>3 DEF bookVars, Book!AllResting, Book!RestingIn
<1>12. ASSUME NEW o \in Book!AllResting
       PROVE  Under(conns', o) = Under(conns, o)
  <2>1. OwnerIsConnected(o)
    BY OwnersAreConnectedUnfolded DEF Orders, MarketInv, OwnerInv
  <2>2. HolderIn(conns', o.client_fd) = HolderIn(conns, o.client_fd)
    BY <1>2, <1>4, <2>1, BookAssumption DEF OwnerIsConnected, HolderIn, Connected
  <2> QED
    BY <2>2 DEF Under
<1>13. /\ {ByOwner(o) : o \in Book!AllResting}' = {ByOwner(o) : o \in Book!AllResting}
       /\ (IF ord = NoOrder THEN NoOrder ELSE ByOwner(ord))' =
            (IF ord = NoOrder THEN NoOrder ELSE ByOwner(ord))
  <2>1. IncomingIn(conns', ord') = IncomingIn(conns, ord)
    BY <1>3, <1>11 DEF IncomingIn
  <2>2. {Under(conns', o) : o \in Book!AllResting'} = {Under(conns, o) : o \in Book!AllResting}
    BY <1>11, <1>12
  <2> QED
    BY <2>1, <2>2, Views, NextViews, Zenon
<1>14. Market!Arrive(c)
  BY <1>9, <1>10, <1>11, <1>13, Zenon DEF Market!Arrive, Market!book
<1> QED
  BY <1>2, <1>14

(* BUY and SELL place an order of the client's own.                        *)
LEMMA PlaceRefines ==
  ASSUME MarketInv, NEW fd \in Fds, NEW side \in Book!Sides, NEW listing \in Listings,
         NEW amount \in Amounts, PlaceOrder(fd, side, listing, amount)
  PROVE  \E c \in Clients : Market!Command(c)
<1>1. PICK c, call, quantity : /\ c = conns[fd].client
                               /\ call = <<listing[1], ToInt(listing[2])>>
                               /\ quantity = ToInt(amount)
  OBVIOUS
<1>2. /\ fd \in Connected /\ ~conns[fd].closing /\ conns[fd].username # NoName
      /\ conns' = conns /\ arrived' = arrived
  BY DEF PlaceOrder, Listening
<1>3. /\ c \in Clients /\ Sessions[c] = SessionOf(conns[fd]) /\ Places[c] = "here"
      /\ conns[fd] \in Connection /\ HolderIn(conns, fd) = c
  BY <1>1, <1>2, Here
<1>4. /\ quantity \in Quantities /\ call \in Listings
      /\ Book!PlaceOrder(fd, side, call[1], quantity, call[2])
  BY <1>1, AcceptedCall
<1>5. Market!Heard(c) /\ Market!Trader(c)
  <2>1. conns[fd].type = "trader"
    BY <1>2 DEF MarketInv, SessionInv, RolesExclusive
  <2> QED
    BY <1>2, <1>3, <2>1, SessionFields DEF Market!Heard, Market!Here, Market!Trader
<1>6. Sessions' = Sessions /\ Places' = Places
  BY <1>2, SameTableSameSessions
<1>7. PICK o : o = [id |-> next_order_id, quantity |-> quantity, price |-> call[2],
                    client_fd |-> fd, type |-> side, instrument |-> call[1]]
  OBVIOUS
<1>8. /\ ord = NoOrder /\ ord' = o /\ book' = book /\ next_order_id < MaxOrders
      /\ next_order_id' = next_order_id + 1
  BY <1>4, <1>7 DEF Book!PlaceOrder
<1>9. o # NoOrder
  <2>1. ord' \in Book!Order \cup {NoOrder} /\ ord' # NoOrder
    <3>1. next_order_id \in OrderIds
      BY <1>8, BoundAssumption DEF MarketInv, OwnerInv, HistoryTypes, OrderIds, Book!OrderIds
    <3>2. quantity \in Nat /\ call[2] \in Nat /\ call[1] \in Book!Instruments
      <4>1. Quantities \subseteq Nat \ {0} /\ Listings \subseteq Book!Instruments \X (Nat \ {0})
        BY BookAssumption DEF Instruments
      <4> QED
        BY <1>4, <4>1
    <3>3. o \in Book!Order
      BY <1>7, <3>1, <3>2 DEF Book!Order, OrderIds
    <3> QED
      BY <1>8, <3>3, BookAssumption
  <2> QED
    BY <1>8, <2>1
<1>10. Under(conns, o) = [id |-> next_order_id, quantity |-> quantity, price |-> call[2],
                          client_fd |-> c, type |-> side, instrument |-> call[1]]
  BY <1>3, <1>7 DEF Under
<1>11. /\ (IF ord = NoOrder THEN NoOrder ELSE ByOwner(ord)) = NoOrder
       /\ (IF ord = NoOrder THEN NoOrder ELSE ByOwner(ord))' = Under(conns, o)
  <2>1. IncomingIn(conns, ord) = NoOrder
    BY <1>8 DEF IncomingIn
  <2>2. IncomingIn(conns', ord') = Under(conns, o)
    BY <1>2, <1>8, <1>9 DEF IncomingIn
  <2> QED
    BY <2>1, <2>2, Views, NextViews, Zenon
<1>12. {ByOwner(o2) : o2 \in Book!AllResting}' = {ByOwner(o2) : o2 \in Book!AllResting}
  <2>1. Book!AllResting' = Book!AllResting
    BY <1>8 DEF Book!AllResting, Book!RestingIn
  <2> QED
    BY <1>2, <2>1, Views, NextViews
<1>13. Market!Place(c, side, call, quantity)
  BY <1>6, <1>8, <1>10, <1>11, <1>12, Zenon DEF Market!Place, Market!Book!Submit
<1> QED
  BY <1>3, <1>4, <1>5, <1>13 DEF Market!Command, Book!Sides

(* CANCEL withdraws an order of the client's own.                          *)
LEMMA CancelRefines ==
  ASSUME MarketInv, NEW fd \in Fds, NEW id \in OrderIds, CancelUserOrder(fd, id)
  PROVE  \E c \in Clients : Market!Command(c)
<1>1. PICK c : c = conns[fd].client
  OBVIOUS
<1>2. /\ fd \in Connected /\ ~conns[fd].closing /\ conns[fd].username # NoName
      /\ conns' = conns /\ arrived' = arrived
  BY DEF CancelUserOrder, Listening
<1>3. /\ c \in Clients /\ c # NoFd /\ Sessions[c] = SessionOf(conns[fd])
      /\ Places[c] = "here" /\ conns[fd] \in Connection /\ HolderIn(conns, fd) = c
  BY <1>1, <1>2, Here
<1>4. Market!Heard(c) /\ Market!Trader(c)
  <2>1. conns[fd].type = "trader"
    BY <1>2 DEF MarketInv, SessionInv, RolesExclusive
  <2> QED
    BY <1>2, <1>3, <2>1, SessionFields DEF Market!Heard, Market!Here, Market!Trader
<1>5. Sessions' = Sessions /\ Places' = Places
  BY <1>2, SameTableSameSessions
<1>6. PICK p \in Ref!AllResting : p.client_fd = fd /\ Ref!Matching!Withdraw(p)
  <2>1. Ref!CancelOrder(id, fd) /\ id \in Ref!OrderIds
    BY SameOperations DEF CancelUserOrder, OrderIds, Book!OrderIds, Ref!OrderIds
  <2> QED
    BY <2>1, Ref!CancelOrderRefines, RefHypotheses DEF MarketInv
<1>7. /\ p \in Book!AllResting /\ Book!AllResting' = Book!AllResting \ {p}
      /\ ord = NoOrder /\ ord' = NoOrder /\ next_order_id' = next_order_id
  BY <1>6, SameResting DEF Ref!Matching!Withdraw
<1>8. PICK mine : mine = Under(conns, p)
  OBVIOUS
<1>9. mine.client_fd = c /\ mine \in {ByOwner(o) : o \in Book!AllResting}
  <2>1. p \in Book!Order
    BY <1>7, BookFacts
  <2> QED
    BY <1>3, <1>6, <1>7, <1>8, <2>1, UnderFields, Views
<1>10. {ByOwner(o) : o \in Book!AllResting}' = {ByOwner(o) : o \in Book!AllResting} \ {mine}
  <2>1. \A o \in Book!AllResting : Under(conns, o) = mine => o = p
    BY <1>7, <1>8, BookFacts, UnderFields
  <2>2. {Under(conns', o) : o \in Book!AllResting'} =
          {Under(conns, o) : o \in Book!AllResting} \ {mine}
    BY <1>2, <1>7, <1>8, <2>1
  <2> QED
    BY <2>2, Views, NextViews, Zenon
<1>11. Market!Cancel(c, mine)
  <2>1. (IF ord = NoOrder THEN NoOrder ELSE ByOwner(ord)) = NoOrder
        /\ (IF ord = NoOrder THEN NoOrder ELSE ByOwner(ord))' = NoOrder
    BY <1>7
  <2> QED
    BY <1>3, <1>5, <1>7, <1>9, <1>10, <2>1, Zenon DEF Market!Cancel, Market!Book!Withdraw
<1> QED
  BY <1>3, <1>4, <1>9, <1>11 DEF Market!Command

(* removeClient leaves the departed client's orders to nobody, and takes    *)
(* no one else's.                                                           *)
LEMMA RemoveRefines ==
  ASSUME MarketInv, NEW fd \in Fds, RemoveClient(fd)
  PROVE  \E c \in Clients : Market!Leave(c)
<1>1. PICK c : c = conns[fd].client
  OBVIOUS
<1>2. /\ leaving = fd /\ conns' = [conns EXCEPT ![fd] = NoConnection] /\ arrived' = arrived
      /\ Book!DetachClientOrders(fd)
  BY DEF RemoveClient, OrdersReleased
<1>3. fd \in Connected /\ fd # NoFd
  BY <1>2, BookAssumption DEF MarketInv, SlotInv
<1>4. /\ c \in Clients /\ c # NoFd /\ Sessions[c] = SessionOf(conns[fd])
      /\ Places[c] = "here" /\ HolderIn(conns, fd) = c
  BY <1>1, <1>3, Here
<1>5. conns'[fd] = NoConnection /\ \A other \in Fds \ {fd} : conns'[other] = conns[other]
  BY <1>2, BookFacts
<1>6. \A other \in Fds \ {fd} : conns[other] # NoConnection => conns[other].client # c
  BY <1>1, <1>3 DEF MarketInv, SlotInv, Connected
<1>7. ~(c > arrived)
  <2>1. c <= arrived /\ c \in Int /\ arrived \in Int
    BY <1>1, <1>3, <1>4, BoundAssumption
       DEF MarketInv, SlotInv, SessionInv, SessionTypes, Clients
  <2> QED
    BY <2>1
<1>8. SessionIn(conns', c) = Market!Newcomer /\ PlaceIn(conns', arrived', c) = "left"
  <2>1. \A x \in Fds : conns'[x] # NoConnection => conns'[x].client # c
    BY <1>5, <1>6
  <2> QED
    BY <1>2, <1>7, <2>1, NoSlotNoSession, NewcomerIsFresh
<1>9. ASSUME NEW x \in Clients, x # c
      PROVE  /\ SessionIn(conns', x) = SessionIn(conns, x)
             /\ PlaceIn(conns', arrived', x) = PlaceIn(conns, arrived, x)
  <2>1. SameSlots(conns', conns, x)
    BY <1>1, <1>5, <1>9 DEF SameSlots
  <2>2. PlaceIn(conns', arrived', x) = PlaceIn(conns, arrived, x)
    BY <1>2, <2>1 DEF PlaceIn, SameSlots
  <2> QED
    BY <2>1, <2>2, SameSlotsSameSession
<1>10. Sessions' = [Sessions EXCEPT ![c] = Market!Newcomer]
  BY <1>4, <1>8, <1>9, Views, NextViews
<1>11. Places' = [Places EXCEPT ![c] = "left"]
  BY <1>4, <1>8, <1>9, Views, NextViews
<1>12. Ref!Matching!Disown(fd)
  BY <1>2, SameOperations, Ref!DetachClientOrdersRefines, RefHypotheses DEF MarketInv
<1> DEFINE disowned(p) == IF p.client_fd = fd THEN [p EXCEPT !.client_fd = NoFd] ELSE p
           left(p) == IF p.client_fd = c THEN [p EXCEPT !.client_fd = NoFd] ELSE p
<1>13. /\ Book!AllResting' = {disowned(p) : p \in Book!AllResting}
       /\ ord = NoOrder /\ ord' = NoOrder /\ next_order_id' = next_order_id
  BY <1>12, SameResting DEF Ref!Matching!Disown
<1>14. ASSUME NEW p \in Book!AllResting
       PROVE  Under(conns', disowned(p)) = left(Under(conns, p))
  <2>1. p \in Book!Order
    BY BookFacts
  <2>2. HolderIn(conns', NoFd) = NoFd
    BY BookAssumption DEF HolderIn
  <2>3. CASE p.client_fd = fd
    <3>1. PICK gone : gone = [p EXCEPT !.client_fd = NoFd]
      OBVIOUS
    <3>2. gone = [id |-> p.id, quantity |-> p.quantity, price |-> p.price, client_fd |-> NoFd,
                  type |-> p.type, instrument |-> p.instrument]
      BY <2>1, <3>1 DEF Book!Order
    <3>3. Under(conns', gone) = gone
      BY <2>2, <3>2 DEF Under
    <3>4. Under(conns, p).client_fd = c
      BY <1>4, <2>1, <2>3, UnderFields
    <3>5. [Under(conns, p) EXCEPT !.client_fd = NoFd] = gone
      BY <2>1, <3>2, UnderFields
    <3> QED
      BY <2>3, <3>1, <3>3, <3>4, <3>5
  <2>4. CASE p.client_fd # fd
    <3>1. /\ HolderIn(conns', p.client_fd) = HolderIn(conns, p.client_fd)
          /\ HolderIn(conns, p.client_fd) # c
      BY <1>4, <1>5, <1>6, <2>4 DEF HolderIn
    <3>2. Under(conns', p) = Under(conns, p)
      BY <3>1 DEF Under
    <3>3. Under(conns, p).client_fd # c
      BY <2>1, <3>1, UnderFields
    <3> QED
      BY <2>4, <3>2, <3>3
  <2> QED
    BY <2>3, <2>4
<1>15. {Under(conns', o) : o \in Book!AllResting'} =
         {left(o) : o \in {Under(conns, p) : p \in Book!AllResting}}
  <2> HIDE DEF disowned, left
  <2>1. {Under(conns', o) : o \in Book!AllResting'} =
          {Under(conns', disowned(p)) : p \in Book!AllResting}
    BY <1>13
  <2> QED
    BY <1>14, <2>1
<1>16. {ByOwner(o) : o \in Book!AllResting}' =
         {left(o) : o \in {ByOwner(p) : p \in Book!AllResting}}
  BY <1>15, Views, NextViews, Zenon
<1>17. Market!Leave(c)
  <2>1. (IF ord = NoOrder THEN NoOrder ELSE ByOwner(ord)) = NoOrder
        /\ (IF ord = NoOrder THEN NoOrder ELSE ByOwner(ord))' = NoOrder
    BY <1>13
  <2> QED
    BY <1>4, <1>10, <1>11, <1>13, <1>16, <2>1, Zenon
       DEF Market!Leave, Market!Here, Market!Book!Disown
<1> QED
  BY <1>4, <1>17

LEMMA NextRefinesMarketplace ==
  MarketInv /\ [Next]_vars => [Market!Next]_(Market!vars)
<1> SUFFICES ASSUME MarketInv, [Next]_vars PROVE [Market!Next]_(Market!vars)
  OBVIOUS
<1>1. CASE Connect
  BY <1>1, ConnectRefines DEF Market!Next
<1>2. CASE \E fd \in Fds, name \in Names : LoginUser(fd, name)
  BY <1>2, LoginRefines DEF Market!Next
<1>3. CASE \E fd \in Fds, instrument \in Instruments :
             SubscribeClient(fd, instrument) \/ UnsubscribeClient(fd, instrument)
  BY <1>3, FollowRefines DEF Market!Next
<1>4. CASE \E fd \in Fds : QuitUser(fd)
  BY <1>4, QuitRefines DEF Market!Next
<1>5. CASE \E fd \in Fds, side \in Book!Sides, listing \in Listings, amount \in Amounts :
             PlaceOrder(fd, side, listing, amount)
  BY <1>5, PlaceRefines DEF Market!Next
<1>6. CASE \E fd \in Fds, id \in OrderIds : CancelUserOrder(fd, id)
  BY <1>6, CancelRefines DEF Market!Next
<1>7. CASE \E fd \in Fds : RemoveClient(fd)
  BY <1>7, RemoveRefines DEF Market!Next
<1>8. CASE Walk
  BY <1>8, WalkRefines DEF Market!Next
<1>9. CASE Report
  BY <1>9, ReportRefines DEF Market!Next
<1>10. CASE (\E fd \in Fds : Depart(fd)) \/ UNCHANGED vars
  <2>1. UNCHANGED <<conns, arrived, bookVars>>
    BY <1>10 DEF Depart, vars, connVars
  <2> QED
    BY <2>1, SameTableSameSessions, SameTableSameOwners, Zenon DEF Market!vars, Market!book
<1> QED
  BY <1>1, <1>2, <1>3, <1>4, <1>5, <1>6, <1>7, <1>8, <1>9, <1>10 DEF Next

LEMMA InitRefinesMarketplace == Init => Market!Init
<1> SUFFICES ASSUME Init PROVE Market!Init
  OBVIOUS
<1>1. /\ conns = [fd \in Fds |-> NoConnection] /\ arrived = 0 /\ ord = NoOrder
      /\ next_order_id = 0 /\ \A o : o \notin Book!AllResting
  BY DEF Init, Book!Init, Book!AllResting, Book!RestingIn
<1>2. \A c \in Clients : /\ SessionIn(conns, c) = Market!Newcomer
                         /\ PlaceIn(conns, arrived, c) = "away"
  <2> TAKE c \in Clients
  <2>1. \A fd \in Fds : conns[fd] # NoConnection => conns[fd].client # c
    BY <1>1
  <2>2. c > arrived
    BY <1>1, BoundAssumption DEF Clients
  <2> QED
    BY <2>1, <2>2, NoSlotNoSession, NewcomerIsFresh
<1>3. /\ Places = [c \in Clients |-> "away"]
      /\ Sessions = [c \in Clients |-> Market!Newcomer]
  BY <1>2, Views
<1>4. {ByOwner(o) : o \in Book!AllResting} = {}
  BY <1>1
<1> QED
  BY <1>1, <1>3, <1>4 DEF Market!Init, Market!Book!Init

(* However descriptors are taken over, whoever leaves with orders in the    *)
(* book and whatever the walk, the lists and the array of fills do inside,  *)
(* what the server's clients see is the marketplace: sessions and orders of *)
(* their own, matched by price and time (commands.c, io.c, orderbook.c).    *)
THEOREM MarketplaceImplemented == Spec => ImplementsMarketplace
  BY InitRefinesMarketplace, NextRefinesMarketplace, MarketInvHolds, PTL
     DEF Spec, ImplementsMarketplace, Market!Spec

-----------------------------------------------------------------------------
(* Whose orders nobody owns *)

(* An order was placed by a client that has connected, and it loses its    *)
(* descriptor only when that client is gone, which it stays.               *)
OwnerIsGone(o) ==
  /\ owner[o.id] \in 1 .. arrived
  /\ o.client_fd = NoFd => ~Present(owner[o.id])

GoneInv == \A o \in Orders : OwnerIsGone(o)

(* A step puts nobody in a slot but who was in it before or the newcomer.  *)
Settled ==
  /\ arrived' \in Nat /\ arrived <= arrived'
  /\ \A fd \in Connected' :
       \/ fd \in Connected /\ conns'[fd].client = conns[fd].client
       \/ conns'[fd].client > arrived

LEMMA SessionChangeSettles ==
  ASSUME MarketInv, NEW fd \in Connected, NEW conn \in Connection,
         conns' = [conns EXCEPT ![fd] = conn], conn.client = conns[fd].client,
         arrived' = arrived
  PROVE  Settled
<1>1. fd \in Fds /\ SessionTypes
  BY DEF Connected, MarketInv, SessionInv
<1>2. /\ conns'[fd] = conn
      /\ \A other \in Fds \ {fd} : conns'[other] = conns[other]
      /\ Connected' = Connected \cup {fd}
  BY <1>1, UpdatedSlot
<1>3. \A other \in Connected : other \in Fds
  BY DEF Connected
<1> QED
  BY <1>1, <1>2, <1>3 DEF Settled, SessionTypes

LEMMA ConnectSettles ==
  ASSUME MarketInv, Connect
  PROVE  Settled
<1>1. PICK fd : fd = Min(Fds \ Connected)
  OBVIOUS
<1>2. fd \in Fds \ Connected
  BY <1>1, LowestFreeIsFree DEF Connect
<1>3. /\ conns' = [conns EXCEPT ![fd] = Fresh(arrived + 1)]
      /\ arrived' = arrived + 1
  BY <1>1 DEF Connect
<1>4. arrived + 1 \in Clients /\ arrived \in Nat /\ SessionTypes
  BY BoundAssumption DEF Connect, Clients, MarketInv, SessionInv, SessionTypes
<1>5. /\ conns'[fd] = Fresh(arrived + 1)
      /\ \A other \in Fds \ {fd} : conns'[other] = conns[other]
      /\ Connected' = Connected \cup {fd}
  BY <1>2, <1>3, <1>4, FreshIsConnection, UpdatedSlot
<1>6. \A other \in Connected : other \in Fds \ {fd}
  BY <1>2 DEF Connected
<1>7. Fresh(arrived + 1).client > arrived
  BY <1>4 DEF Fresh
<1> QED
  BY <1>3, <1>4, <1>5, <1>6, <1>7 DEF Settled

LEMMA NextSettles == MarketInv /\ [Next]_vars => Settled
<1> SUFFICES ASSUME MarketInv, [Next]_vars PROVE Settled
  OBVIOUS
<1>1. SessionTypes /\ arrived \in Nat
  BY DEF MarketInv, SessionInv, SessionTypes
<1>2. ASSUME UNCHANGED <<conns, arrived>> PROVE Settled
  BY <1>1, <1>2 DEF Settled, Connected
<1>3. CASE Connect
  BY <1>3, ConnectSettles
<1>4. ASSUME NEW fd \in Fds, NEW name \in Names, LoginUser(fd, name)
      PROVE  Settled
  <2>1. fd \in Connected /\ conns[fd] \in Connection
    BY <1>1, <1>4, ConnectedIsConnection DEF LoginUser, Listening
  <2>2. /\ LoggedIn(conns[fd], name) \in Connection
        /\ LoggedIn(conns[fd], name).client = conns[fd].client
    BY <2>1 DEF LoggedIn, Connection
  <2>3. conns' = [conns EXCEPT ![fd] = LoggedIn(conns[fd], name)] /\ arrived' = arrived
    BY <1>4 DEF LoginUser
  <2> QED
    BY <2>1, <2>2, <2>3, SessionChangeSettles
<1>5. ASSUME NEW fd \in Fds, NEW instrument \in Instruments, SubscribeClient(fd, instrument)
      PROVE  Settled
  <2>1. fd \in Connected /\ conns[fd] \in Connection
    BY <1>1, <1>5, ConnectedIsConnection DEF SubscribeClient, Listening
  <2>2. /\ Subscribed(conns[fd], instrument) \in Connection
        /\ Subscribed(conns[fd], instrument).client = conns[fd].client
    BY <2>1 DEF Subscribed, Connection
  <2>3. conns' = [conns EXCEPT ![fd] = Subscribed(conns[fd], instrument)] /\ arrived' = arrived
    BY <1>5 DEF SubscribeClient
  <2> QED
    BY <2>1, <2>2, <2>3, SessionChangeSettles
<1>6. ASSUME NEW fd \in Fds, NEW instrument \in Instruments, UnsubscribeClient(fd, instrument)
      PROVE  Settled
  <2>1. fd \in Connected /\ conns[fd] \in Connection
    BY <1>1, <1>6, ConnectedIsConnection DEF UnsubscribeClient, Listening
  <2> DEFINE conn == [conns[fd] EXCEPT !.subscribed = conns[fd].subscribed \ {instrument}]
  <2>2. conn \in Connection /\ conn.client = conns[fd].client
    BY <2>1 DEF Connection
  <2>3. conns' = [conns EXCEPT ![fd] = conn] /\ arrived' = arrived
    BY <1>6 DEF UnsubscribeClient
  <2> QED
    BY <2>1, <2>2, <2>3, SessionChangeSettles
<1>7. ASSUME NEW fd \in Fds, QuitUser(fd)
      PROVE  Settled
  <2>1. fd \in Connected /\ conns[fd] \in Connection
    BY <1>1, <1>7, ConnectedIsConnection DEF QuitUser, Listening
  <2> DEFINE conn == [conns[fd] EXCEPT !.closing = TRUE]
  <2>2. conn \in Connection /\ conn.client = conns[fd].client
    BY <2>1 DEF Connection
  <2>3. conns' = [conns EXCEPT ![fd] = conn] /\ arrived' = arrived
    BY <1>7 DEF QuitUser
  <2> QED
    BY <2>1, <2>2, <2>3, SessionChangeSettles
<1>8. CASE \E fd \in Fds : RemoveClient(fd)
  <2>1. PICK fd \in Fds : conns' = [conns EXCEPT ![fd] = NoConnection] /\ arrived' = arrived
    BY <1>8 DEF RemoveClient
  <2>2. /\ Connected' = Connected \ {fd}
        /\ \A other \in Connected \ {fd} : conns'[other] = conns[other]
    BY <1>1, <2>1 DEF SessionTypes, Connected
  <2> QED
    BY <1>1, <2>1, <2>2 DEF Settled
<1>9. CASE \/ \E fd \in Fds, side \in Book!Sides, listing \in Listings, amount \in Amounts :
                PlaceOrder(fd, side, listing, amount)
           \/ \E fd \in Fds, id \in OrderIds : CancelUserOrder(fd, id)
           \/ \E fd \in Fds : Depart(fd)
           \/ Walk
           \/ Report
           \/ UNCHANGED vars
  BY <1>2, <1>9 DEF PlaceOrder, CancelUserOrder, Depart, Walk, Report, connVars, vars
<1> QED
  BY <1>3, <1>4, <1>5, <1>6, <1>7, <1>8, <1>9 DEF Next

LEMMA GoneStaysGone ==
  ASSUME MarketInv, Settled, NEW c \in 1 .. arrived, ~Present(c)
  PROVE  ~Present(c)'
<1>1. arrived \in Nat
  BY DEF MarketInv, SessionInv, SessionTypes
<1> QED
  BY <1>1 DEF Settled, Present

LEMMA CarryingKeepsGone ==
  ASSUME MarketInv, GoneInv, Settled, Carried, owner' = owner
  PROVE  GoneInv'
<1> SUFFICES ASSUME NEW o \in Orders' PROVE OwnerIsGone(o)'
  BY DEF GoneInv
<1>1. PICK p \in Orders : o.id = p.id /\ o.client_fd = p.client_fd
  BY DEF Carried, SameHolder
<1>2. owner[p.id] \in 1 .. arrived /\ (p.client_fd = NoFd => ~Present(owner[p.id]))
  BY DEF GoneInv, OwnerIsGone
<1>3. arrived \in Nat /\ arrived' \in Nat /\ arrived <= arrived'
  BY DEF MarketInv, SessionInv, SessionTypes, Settled
<1>4. PICK c \in 1 .. arrived : c = owner[p.id]
  BY <1>2
<1>5. owner'[o.id] = c /\ c \in 1 .. arrived'
  BY <1>1, <1>3, <1>4
<1>6. o.client_fd = NoFd => ~Present(c)'
  BY <1>1, <1>2, <1>4, GoneStaysGone
<1> QED
  BY <1>5, <1>6 DEF OwnerIsGone, Present

LEMMA PlaceOrderKeepsGone ==
  ASSUME MarketInv, GoneInv, NEW fd \in Fds, NEW side \in Book!Sides,
         NEW listing \in Listings, NEW amount \in Amounts,
         PlaceOrder(fd, side, listing, amount)
  PROVE  GoneInv'
<1>1. /\ book' = book /\ conns' = conns /\ arrived' = arrived /\ ord = NoOrder
      /\ ord'.id = next_order_id /\ ord'.client_fd = fd /\ fd # NoFd
      /\ owner' = [owner EXCEPT ![next_order_id] = conns[fd].client]
      /\ fd \in Connected /\ next_order_id < MaxOrders
  BY BookAssumption DEF PlaceOrder, Book!PlaceOrder, Listening
<1>2. conns[fd].client \in 1 .. arrived
  <2>1. conns[fd].client \in Clients /\ conns[fd].client <= arrived
    BY <1>1, ConnectedIsConnection DEF MarketInv, SessionInv, SlotInv, Connection
  <2> QED
    BY <2>1 DEF Clients, MarketInv, SessionInv, SessionTypes
<1>3. /\ next_order_id \in OrderIds
      /\ \A p \in Orders : p.id \in OrderIds /\ p.id # next_order_id
  <2>1. \A p \in Orders : p.id < next_order_id /\ p \in Book!Order
    BY RestingOrders DEF MarketInv, OwnerInv, Issued
  <2>2. next_order_id \in Nat
    BY DEF MarketInv, OwnerInv, HistoryTypes
  <2> QED
    BY <1>1, <2>1, <2>2, BoundAssumption DEF Book!Order, OrderIds, Book!OrderIds
<1>4. /\ owner'[next_order_id] = conns[fd].client
      /\ \A p \in Orders : owner'[p.id] = owner[p.id]
  BY <1>1, <1>3 DEF MarketInv, OwnerInv, HistoryTypes
<1>5. Orders' \subseteq Orders \cup {ord'}
  BY <1>1 DEF Orders, Book!AllResting, Book!RestingIn
<1>6. \A c : Present(c)' = Present(c)
  BY <1>1 DEF Present, Connected
<1>7. \A p \in Orders : OwnerIsGone(p)'
  BY <1>1, <1>4, <1>6 DEF GoneInv, OwnerIsGone, Present
<1>8. \A p : p = ord' => OwnerIsGone(p)'
  BY <1>1, <1>2, <1>4 DEF OwnerIsGone
<1> QED
  BY <1>5, <1>7, <1>8 DEF GoneInv

LEMMA RemoveClientKeepsGone ==
  ASSUME MarketInv, GoneInv, Settled, NEW fd \in Fds, RemoveClient(fd)
  PROVE  GoneInv'
<1> SUFFICES ASSUME NEW o \in Orders' PROVE OwnerIsGone(o)'
  BY DEF GoneInv
<1>1. PICK p \in Orders :
        /\ o.id = p.id
        /\ \/ o.client_fd = NoFd /\ p.client_fd = fd
           \/ o.client_fd = p.client_fd /\ p.client_fd # fd
  BY OrdersAfterRemoval DEF MarketInv
<1>2. owner' = owner /\ arrived' = arrived /\ conns' = [conns EXCEPT ![fd] = NoConnection]
  BY DEF RemoveClient
<1>3. PICK c \in 1 .. arrived : c = owner[p.id]
  BY DEF GoneInv, OwnerIsGone
<1>4. owner'[o.id] = c /\ c \in 1 .. arrived'
  BY <1>1, <1>2, <1>3
<1>5. CASE p.client_fd = fd
  <2>1. fd \in Connected /\ conns[fd].client = c
    BY <1>3, <1>5, OwnersAreConnectedUnfolded, BookAssumption
       DEF MarketInv, OwnerInv, OwnerIsConnected
  <2>2. /\ Connected' = Connected \ {fd}
        /\ \A other \in Connected \ {fd} : conns'[other] = conns[other]
    BY <1>2 DEF MarketInv, SessionInv, SessionTypes, Connected
  <2>3. \A other \in Connected \ {fd} : conns[other].client # c
    BY <2>1 DEF MarketInv, SlotInv
  <2>4. ~Present(c)'
    BY <2>2, <2>3 DEF Present
  <2> QED
    BY <1>4, <2>4 DEF OwnerIsGone, Present
<1>6. CASE p.client_fd # fd
  <2>1. o.client_fd = NoFd => ~Present(c)
    BY <1>1, <1>3, <1>6 DEF GoneInv, OwnerIsGone
  <2>2. o.client_fd = NoFd => ~Present(c)'
    BY <2>1, GoneStaysGone
  <2> QED
    BY <1>4, <2>2 DEF OwnerIsGone, Present
<1> QED
  BY <1>5, <1>6

LEMMA NextKeepsGone == MarketInv /\ GoneInv /\ [Next]_vars => GoneInv'
<1> SUFFICES ASSUME MarketInv, GoneInv, [Next]_vars PROVE GoneInv'
  OBVIOUS
<1>1. Settled /\ BookTypes
  BY NextSettles DEF MarketInv, OwnerInv
<1>2. CASE \E fd \in Fds, side \in Book!Sides, listing \in Listings, amount \in Amounts :
             PlaceOrder(fd, side, listing, amount)
  BY <1>2, PlaceOrderKeepsGone
<1>3. CASE \E fd \in Fds : RemoveClient(fd)
  BY <1>1, <1>3, RemoveClientKeepsGone
<1>4. CASE Walk
  BY <1>1, <1>4, SkipCarries, ExecuteAllCarries, ExecutePartCarries, CarryingKeepsGone DEF Walk
<1>5. CASE Report
  BY <1>1, <1>5, ReturnCarries, CarryingKeepsGone DEF Report
<1>6. CASE \E fd \in Fds, id \in OrderIds : CancelUserOrder(fd, id)
  BY <1>1, <1>6, CancelOrderCarries, CarryingKeepsGone DEF CancelUserOrder, history
<1>7. CASE \/ Connect
           \/ \E fd \in Fds : \/ \E name \in Names : LoginUser(fd, name)
                              \/ \E instrument \in Instruments :
                                   SubscribeClient(fd, instrument) \/ UnsubscribeClient(fd, instrument)
                              \/ QuitUser(fd) \/ Depart(fd)
           \/ UNCHANGED vars
  <2>1. book' = book /\ ord' = ord /\ owner' = owner
    BY <1>7 DEF Connect, LoginUser, SubscribeClient, UnsubscribeClient, QuitUser, Depart,
                vars, bookVars, history
  <2>2. Orders' = Orders
    BY <2>1 DEF Orders, Book!AllResting, Book!RestingIn
  <2>3. Carried
    BY <2>2 DEF Carried, SameHolder
  <2> QED
    BY <1>1, <2>1, <2>3, CarryingKeepsGone
<1> QED
  BY <1>2, <1>3, <1>4, <1>5, <1>6, <1>7 DEF Next

-----------------------------------------------------------------------------
(* What the fills of an order are reported as *)

(* The notifications about the fills of a report that go to a client, and  *)
(* what they come to.                                                      *)
For(report, c) ==
  {n \in UNION {{<<i, "BOUGHT", report[i].buy_client_fd>>,
                 <<i, "SOLD", report[i].sell_client_fd>>}
                \cup {<<i, "TRADE", fd>> : fd \in Subscribers(report[i].instrument)}
                : i \in DOMAIN report} :
     n[3] \in Connected /\ conns[n[3]].client = c}
AmountFor(report, c) == SumFunction([n \in For(report, c) |-> report[n[1]].quantity])

LEMMA QuantityIsAmount == \A c : QuantityFor(c) = AmountFor(fills, c)
<1>1. \A c : {n \in Notifications : conns[n[3]].client = c} = For(fills, c)
  BY DEF Notifications, Addressed, For
<1> QED
  BY <1>1 DEF QuantityFor, AmountFor

(* Nothing is reported to whom is not there, nor of no fills.              *)
LEMMA NothingFor ==
  ASSUME NEW report, NEW c, ~Present(c) \/ report = <<>>
  PROVE  For(report, c) = {} /\ AmountFor(report, c) = 0
<1>1. For(report, c) = {}
  <2>1. CASE ~Present(c)
    BY <2>1 DEF For, Present
  <2>2. CASE report = <<>>
    <3>1. DOMAIN report = {}
      BY <2>2
    <3> QED
      BY <3>1 DEF For
  <2> QED
    BY <2>1, <2>2
<1>2. PICK f : f = [n \in For(report, c) |-> report[n[1]].quantity]
  OBVIOUS
<1>3. DOMAIN f = {}
  BY <1>1, <1>2
<1>4. SumFunction(f) = 0
  BY <1>3, FS_EmptySet, SumRecursion DEF SumFunction
<1> QED
  BY <1>1, <1>2, <1>4 DEF AmountFor

(* A client with one slot is told of what names that slot.                 *)
LEMMA ForMembers ==
  ASSUME NEW report, NEW s \in Connected,
         \A fd \in Connected : conns[fd].client = conns[s].client => fd = s
  PROVE  \A n : n \in For(report, conns[s].client) <=>
           \E i \in DOMAIN report :
             \/ n = <<i, "BOUGHT", s>> /\ report[i].buy_client_fd = s
             \/ n = <<i, "SOLD", s>> /\ report[i].sell_client_fd = s
             \/ n = <<i, "TRADE", s>> /\ s \in Subscribers(report[i].instrument)
<1>1. \A n : n \in For(report, conns[s].client) <=>
        \E i \in DOMAIN report :
          /\ \/ n = <<i, "BOUGHT", report[i].buy_client_fd>>
             \/ n = <<i, "SOLD", report[i].sell_client_fd>>
             \/ \E fd \in Subscribers(report[i].instrument) : n = <<i, "TRADE", fd>>
          /\ n[3] \in Connected /\ conns[n[3]].client = conns[s].client
  BY DEF For
<1>2. \A x \in Connected : conns[x].client = conns[s].client <=> x = s
  OBVIOUS
<1>3. \A i, fd : <<i, "BOUGHT", fd>>[3] = fd /\ <<i, "SOLD", fd>>[3] = fd /\ <<i, "TRADE", fd>>[3] = fd
  OBVIOUS
<1> QED
  BY <1>1, <1>2, <1>3

LEMMA AmountAppended ==
  ASSUME NEW report \in Seq(Book!Fill), NEW fill \in Book!Fill, NEW s \in Connected,
         \A fd \in Connected : conns[fd].client = conns[s].client => fd = s,
         NEW c, c = conns[s].client, IsFiniteSet(For(report, c))
  PROVE  /\ AmountFor(report, c) \in Nat
         /\ IsFiniteSet(For(Append(report, fill), c))
         /\ AmountFor(Append(report, fill), c) =
              AmountFor(report, c)
              + (IF fill.buy_client_fd = s THEN fill.quantity ELSE 0)
              + (IF fill.sell_client_fd = s THEN fill.quantity ELSE 0)
              + (IF s \in Subscribers(fill.instrument) THEN fill.quantity ELSE 0)
<1>1. PICK k, longer : k = Len(report) + 1 /\ longer = Append(report, fill)
  OBVIOUS
<1>2. /\ k \notin DOMAIN report /\ DOMAIN longer = DOMAIN report \cup {k}
      /\ longer[k] = fill /\ \A i \in DOMAIN report : longer[i] = report[i]
      /\ \A i \in DOMAIN report : report[i].quantity \in Nat
      /\ fill.quantity \in Nat
  <2>1. /\ Len(report) \in Nat /\ DOMAIN report = 1 .. Len(report)
        /\ \A i \in 1 .. Len(report) : report[i] \in Book!Fill
    BY LenProperties, ElementOfSeq
  <2>2. /\ DOMAIN longer = 1 .. Len(report) + 1
        /\ \A i \in 1 .. Len(report) : longer[i] = report[i]
        /\ longer[Len(report) + 1] = fill
    BY <1>1, <2>1, AppendProperties
  <2>3. \A other \in Book!Fill : other.quantity \in Nat
    BY DEF Book!Fill
  <2> QED
    BY <1>1, <2>1, <2>2, <2>3
<1>3. PICK mine, more : mine = For(report, c) /\ more = For(longer, c)
  OBVIOUS
<1>4. PICK b, a, t : b = <<k, "BOUGHT", s>> /\ a = <<k, "SOLD", s>> /\ t = <<k, "TRADE", s>>
  OBVIOUS
<1>5. /\ b # a /\ b # t /\ a # t /\ b[1] = k /\ a[1] = k /\ t[1] = k
  BY <1>4
<1>6. \A n \in mine : n[1] \in DOMAIN report
  BY <1>3, ForMembers
<1>7. b \notin mine /\ a \notin mine /\ t \notin mine
  BY <1>2, <1>5, <1>6
<1>8. \A n : n \in more <=> \/ n \in mine
                            \/ n = b /\ fill.buy_client_fd = s
                            \/ n = a /\ fill.sell_client_fd = s
                            \/ n = t /\ s \in Subscribers(fill.instrument)
  <2>1. \A n : n \in mine <=>
          \E i \in DOMAIN report :
            \/ n = <<i, "BOUGHT", s>> /\ report[i].buy_client_fd = s
            \/ n = <<i, "SOLD", s>> /\ report[i].sell_client_fd = s
            \/ n = <<i, "TRADE", s>> /\ s \in Subscribers(report[i].instrument)
    BY <1>3, ForMembers
  <2>2. \A n : n \in more <=>
          \E i \in DOMAIN longer :
            \/ n = <<i, "BOUGHT", s>> /\ longer[i].buy_client_fd = s
            \/ n = <<i, "SOLD", s>> /\ longer[i].sell_client_fd = s
            \/ n = <<i, "TRADE", s>> /\ s \in Subscribers(longer[i].instrument)
    BY <1>3, ForMembers
  <2> QED
    BY <1>2, <1>4, <2>1, <2>2
<1>9. PICK all : all = mine \cup {b, a, t}
  OBVIOUS
<1>10. PICK h : h = [n \in all |-> longer[n[1]].quantity]
  OBVIOUS
<1>11. /\ \A n \in mine : h[n] = report[n[1]].quantity /\ h[n] \in Nat
       /\ h[b] = fill.quantity /\ h[a] = fill.quantity /\ h[t] = fill.quantity
       /\ h[b] \in Nat /\ h[a] \in Nat /\ h[t] \in Nat
       /\ \A n \in more : h[n] = longer[n[1]].quantity
  <2>1. \A n \in mine : longer[n[1]] = report[n[1]] /\ report[n[1]].quantity \in Nat
    BY <1>2, <1>6
  <2>2. \A n \in all : h[n] = longer[n[1]].quantity
    BY <1>10
  <2>3. \A n \in more : n \in all
    BY <1>8, <1>9
  <2> QED
    BY <1>2, <1>5, <1>9, <2>1, <2>2, <2>3
<1>12. PICK one : one = mine \cup (IF fill.buy_client_fd = s THEN {b} ELSE {})
  OBVIOUS
<1>13. PICK two : two = one \cup (IF fill.sell_client_fd = s THEN {a} ELSE {})
  OBVIOUS
<1>14. more = two \cup (IF s \in Subscribers(fill.instrument) THEN {t} ELSE {})
  BY <1>8, <1>12, <1>13
<1>15. /\ one = mine \/ one = mine \cup {b}
       /\ two = one \/ two = one \cup {a}
       /\ more = two \/ more = two \cup {t}
       /\ a \notin one /\ t \notin two
       /\ b \in one <=> fill.buy_client_fd = s
       /\ a \in two <=> fill.sell_client_fd = s
       /\ t \in more <=> s \in Subscribers(fill.instrument)
  BY <1>5, <1>7, <1>12, <1>13, <1>14
<1>16. /\ IsFiniteSet(one) /\ \A n \in one : h[n] \in Nat
       /\ SumFunctionOnSet(h, one) =
            SumFunctionOnSet(h, mine) + (IF b \in one THEN h[b] ELSE 0)
  BY ONLY IsFiniteSet(For(report, c)), <1>3, <1>7, <1>11, <1>15, SumMaybe
<1>17. /\ IsFiniteSet(two) /\ \A n \in two : h[n] \in Nat
       /\ SumFunctionOnSet(h, two) =
            SumFunctionOnSet(h, one) + (IF a \in two THEN h[a] ELSE 0)
  BY ONLY <1>11, <1>15, <1>16, SumMaybe
<1>18. /\ IsFiniteSet(more) /\ \A n \in more : h[n] \in Nat
       /\ SumFunctionOnSet(h, more) =
            SumFunctionOnSet(h, two) + (IF t \in more THEN h[t] ELSE 0)
  BY ONLY <1>11, <1>15, <1>17, SumMaybe
<1>19. PICK f, g : f = [n \in mine |-> report[n[1]].quantity]
                   /\ g = [n \in more |-> longer[n[1]].quantity]
  OBVIOUS
<1>20. /\ DOMAIN f = mine /\ DOMAIN g = more
       /\ \A n \in mine : f[n] = h[n]
       /\ \A n \in more : g[n] = h[n]
  BY <1>11, <1>19
<1>21. SumFunctionOnSet(f, mine) = SumFunctionOnSet(h, mine) /\ SumFunctionOnSet(h, mine) \in Nat
  BY ONLY IsFiniteSet(For(report, c)), <1>3, <1>11, <1>20, SumSame, SumType
<1>22. SumFunctionOnSet(g, more) = SumFunctionOnSet(h, more)
  BY ONLY <1>18, <1>20, SumSame
<1>23. /\ AmountFor(report, c) = SumFunctionOnSet(f, mine)
       /\ AmountFor(longer, c) = SumFunctionOnSet(g, more)
  BY <1>3, <1>19, <1>20 DEF AmountFor, SumFunction
<1>24. AmountFor(longer, c) =
              AmountFor(report, c)
              + (IF fill.buy_client_fd = s THEN fill.quantity ELSE 0)
              + (IF fill.sell_client_fd = s THEN fill.quantity ELSE 0)
              + (IF s \in Subscribers(fill.instrument) THEN fill.quantity ELSE 0)
  BY ONLY <1>11, <1>15, <1>16, <1>17, <1>18, <1>21, <1>22, <1>23
<1> QED
  BY <1>1, <1>3, <1>18, <1>21, <1>23, <1>24

-----------------------------------------------------------------------------
(* What an execution is worth to a client *)

LEMMA OrderNumbers == IsFiniteSet(OrderIds)
  BY BoundAssumption, FS_Interval DEF OrderIds, Book!OrderIds

LEMMA UniqueSlot ==
  ASSUME MarketInv, NEW s \in Connected
  PROVE  \A fd \in Connected : conns[fd].client = conns[s].client => fd = s
  BY DEF MarketInv, SlotInv

(* An order is a client's exactly when it names the client's slot.         *)
LEMMA OwnerHasSlot ==
  ASSUME MarketInv, GoneInv, NEW o \in Orders, NEW s \in Connected
  PROVE  owner[o.id] = conns[s].client <=> o.client_fd = s
<1>1. s # NoFd
  BY BookAssumption DEF Connected
<1>2. OwnerIsConnected(o) /\ OwnerIsGone(o)
  BY OwnersAreConnectedUnfolded DEF MarketInv, OwnerInv, GoneInv
<1>3. CASE o.client_fd = NoFd
  <2>1. ~Present(owner[o.id])
    BY <1>2, <1>3 DEF OwnerIsGone
  <2> QED
    BY <1>1, <1>3, <2>1 DEF Present
<1>4. CASE o.client_fd # NoFd
  <2>1. o.client_fd \in Connected /\ conns[o.client_fd].client = owner[o.id]
    BY <1>2, <1>4 DEF OwnerIsConnected
  <2> QED
    BY <2>1, UniqueSlot
<1> QED
  BY <1>3, <1>4

LEMMA ToldOfTrades ==
  ASSUME MarketInv, NEW s \in Connected, NEW instrument
  PROVE  s \in Subscribers(instrument) <=> instrument \in conns[s].subscribed
  BY DEF MarketInv, SessionInv, RolesExclusive, Subscribers

(* What the history of executions says of one.                             *)
LEMMA TradeInHistory ==
  ASSUME MarketInv, Book!Walking, NEW qty, qty = Book!ExecutedQuantity(Book!Resting, ord),
         Book!Trade(qty)
  PROVE  /\ qty \in Nat
         /\ ord \in Orders /\ Book!Resting \in Orders
         /\ ord \in Book!Order /\ Book!Resting \in Book!Order
         /\ ord.id \in OrderIds /\ Book!Resting.id \in OrderIds /\ ord.id # Book!Resting.id
         /\ Traded(ord.id) = qty /\ Traded(Book!Resting.id) = qty
         /\ \A id \in OrderIds : id # ord.id /\ id # Book!Resting.id => Traded(id) = 0
<1>1. BookTypes /\ Ref!IndInv
  BY DEF MarketInv, OwnerInv
<1>2. /\ ord \in Book!Order /\ ord # NoOrder /\ Book!Resting \in Book!Order
      /\ Book!Resting = book[Book!OppList(ord)][cur]
      /\ Book!OppList(ord) \in Book!Queues /\ cur \in 1 .. Len(book[Book!OppList(ord)])
  BY <1>1, Walked
<1>3. qty \in Nat
  BY <1>1, TradedOrder
<1>4. Book!Resting \in Book!AllResting
  BY <1>1, <1>2, RestingOrders
<1>5. ord.id # Book!Resting.id
  <2>1. ord # NoOrder => \A o \in Ref!AllResting : o.id # ord.id
    BY <1>1, Ref!RestingFacts, RefHypotheses
  <2> QED
    BY <1>2, <1>4, <2>1, SameResting
<1>6. ord.id \in OrderIds /\ Book!Resting.id \in OrderIds
  BY <1>2 DEF Book!Order, OrderIds
<1>7. executed \in [OrderIds -> Nat]
  BY <1>1 DEF Ref!IndInv, Ref!TypeOK, OrderIds, Book!OrderIds, Ref!OrderIds
<1>8. PICK a, b : a = ord.id /\ b = Book!Resting.id
  OBVIOUS
<1>9. executed' = [executed EXCEPT ![a] = @ + qty, ![b] = @ + qty]
  BY <1>8 DEF Book!Trade
<1>10. /\ executed'[a] = executed[a] + qty /\ executed'[b] = executed[b] + qty
       /\ \A id \in OrderIds : id # a /\ id # b => executed'[id] = executed[id]
       /\ \A id \in OrderIds : executed[id] \in Nat
  BY <1>5, <1>6, <1>7, <1>8, <1>9
<1>11. /\ Traded(a) = qty /\ Traded(b) = qty
       /\ \A id \in OrderIds : id # a /\ id # b => Traded(id) = 0
  BY <1>3, <1>6, <1>8, <1>10 DEF Traded
<1> QED
  BY <1>2, <1>3, <1>4, <1>5, <1>6, <1>8, <1>11 DEF Orders

(* What is owed counts the two owners of the execution, and the            *)
(* subscribers of its instrument, by the slots they are in.                *)
LEMMA OwedByTrade ==
  ASSUME MarketInv, GoneInv, Book!Walking,
         NEW qty, qty = Book!ExecutedQuantity(Book!Resting, ord), Book!Trade(qty),
         NEW s \in Connected, NEW c, c = conns[s].client
  PROVE  Owed(c) = (IF ord.client_fd = s THEN qty ELSE 0)
                   + (IF Book!Resting.client_fd = s THEN qty ELSE 0)
                   + (IF s \in Subscribers(ord.instrument) THEN qty ELSE 0)
<1>1. PICK a, b : a = ord.id /\ b = Book!Resting.id
  OBVIOUS
<1>2. /\ qty \in Nat /\ a \in OrderIds /\ b \in OrderIds /\ a # b
      /\ Traded(a) = qty /\ Traded(b) = qty
      /\ \A id \in OrderIds : id # a /\ id # b => Traded(id) = 0
      /\ ord \in Orders /\ Book!Resting \in Orders
  BY <1>1, TradeInHistory
<1>3. PICK own : own = {i \in OrderIds : owner[i] = c}
  OBVIOUS
<1>4. IsFiniteSet(own)
  BY <1>3, OrderNumbers, FS_Subset
<1>5. PICK f : f = [id \in own |-> Traded(id)]
  OBVIOUS
<1>6. /\ DOMAIN f = own
      /\ \A x \in own : f[x] \in Nat
      /\ \A x \in own : x # a /\ x # b => f[x] = 0
      /\ a \in own => f[a] = qty
      /\ b \in own => f[b] = qty
  <2>1. \A x \in own : f[x] = Traded(x) /\ x \in OrderIds
    BY <1>3, <1>5
  <2> QED
    BY <1>2, <1>5, <2>1
<1>7. SumFunctionOnSet(f, own) = (IF a \in own THEN f[a] ELSE 0) + (IF b \in own THEN f[b] ELSE 0)
  BY ONLY <1>2, <1>4, <1>6, SumOfTwo
<1>8. SumFunction(f) = (IF a \in own THEN qty ELSE 0) + (IF b \in own THEN qty ELSE 0)
  BY ONLY <1>6, <1>7 DEF SumFunction
<1>9. (a \in own <=> ord.client_fd = s) /\ (b \in own <=> Book!Resting.client_fd = s)
  BY <1>1, <1>2, <1>3, OwnerHasSlot
<1>10. Present(c)
  BY DEF Present
<1>11. (\E fd \in Connected : conns[fd].client = c /\ ord.instrument \in conns[fd].subscribed)
         <=> s \in Subscribers(ord.instrument)
  BY UniqueSlot, ToldOfTrades
<1>12. Owed(c) = SumFunction(f) + (IF s \in Subscribers(ord.instrument) THEN Traded(a) ELSE 0)
  BY <1>1, <1>3, <1>5, <1>10, <1>11 DEF Owed
<1> QED
  BY <1>2, <1>8, <1>9, <1>12

LEMMA NothingOwed ==
  ASSUME NEW c, ~Present(c)
  PROVE  Owed(c) = 0
  BY DEF Owed, Present

(* Nor is a step owed anything for that executes nothing.                  *)
LEMMA SkipOwesNothing ==
  ASSUME MarketInv, Book!Skip, NEW c
  PROVE  Owed(c) = 0
<1>1. BookTypes /\ Ref!IndInv
  BY DEF MarketInv, OwnerInv
<1>2. executed' = executed /\ ord \in Book!Order
  BY <1>1, Walked DEF Book!Skip, Book!history
<1>3. executed \in [OrderIds -> Nat] /\ ord.id \in OrderIds
  BY <1>1, <1>2 DEF Ref!IndInv, Ref!TypeOK, OrderIds, Book!OrderIds, Ref!OrderIds, Book!Order
<1>4. \A id \in OrderIds : Traded(id) = 0
  BY <1>2, <1>3 DEF Traded
<1>5. PICK own : own = {i \in OrderIds : owner[i] = c}
  OBVIOUS
<1>6. PICK f : f = [id \in own |-> Traded(id)]
  OBVIOUS
<1>7. /\ DOMAIN f = own /\ IsFiniteSet(own) /\ \A x \in own : f[x] = 0
  BY <1>4, <1>5, <1>6, OrderNumbers, FS_Subset
<1>8. SumFunction(f) = 0
  BY ONLY <1>7, SumOfZeros DEF SumFunction
<1> QED
  BY <1>3, <1>4, <1>5, <1>6, <1>8 DEF Owed

-----------------------------------------------------------------------------
(* Executed and reported *)

(* What is still owed to a client is what the fills recorded so far will   *)
(* be reported to it as, and more only if a fill could not be recorded.    *)
Balanced(c) ==
  /\ IsFiniteSet(For(fills, c))
  /\ AmountFor(fills, c) <= unreported[c]
  /\ ~AllocMayFail => AmountFor(fills, c) = unreported[c]

AccountInv ==
  /\ MarketInv
  /\ GoneInv
  /\ Ref!FillsFit
  /\ ord = NoOrder => fills = <<>>
  /\ unreported \in [Clients -> Nat]
  /\ \A c \in Clients : Balanced(c)

LEMMA AmountType ==
  ASSUME NEW report \in Seq(Book!Fill), NEW c, IsFiniteSet(For(report, c))
  PROVE  AmountFor(report, c) \in Nat
<1>1. PICK f : f = [n \in For(report, c) |-> report[n[1]].quantity]
  OBVIOUS
<1>2. \A n \in For(report, c) : report[n[1]].quantity \in Nat
  <2>1. \A n \in For(report, c) : n[1] \in DOMAIN report
    BY DEF For
  <2>2. \A i \in DOMAIN report : report[i] \in Book!Fill
    BY LenProperties, ElementOfSeq
  <2> QED
    BY <2>1, <2>2 DEF Book!Fill
<1>3. DOMAIN f = For(report, c) /\ \A n \in For(report, c) : f[n] \in Nat
  BY <1>1, <1>2
<1>4. SumFunction(f) \in Nat
  BY ONLY IsFiniteSet(For(report, c)), <1>3, SumType DEF SumFunction
<1> QED
  BY <1>1, <1>4 DEF AmountFor

LEMMA FillTypes ==
  ASSUME MarketInv
  PROVE  fills \in Seq(Book!Fill)
<1>1. Ref!Fill = Book!Fill
  BY DEF Ref!Fill, Book!Fill, Ref!Instruments, Book!Instruments
<1> QED
  BY <1>1 DEF MarketInv, Ref!IndInv, Ref!TypeOK

(* The fill of a trade names both owners' slots.                           *)
LEMMA FillOfTrade ==
  ASSUME MarketInv, GoneInv, Ref!FillsFit, Book!Walking,
         NEW qty, qty = Book!ExecutedQuantity(Book!Resting, ord), Book!Trade(qty)
  PROVE  \E fill \in Book!Fill :
           /\ Ref!FillsFit'
           /\ fills' = fills \/ fills' = Append(fills, fill)
           /\ ~AllocMayFail => fills' = Append(fills, fill)
           /\ fill.quantity = qty /\ fill.instrument = ord.instrument
           /\ \/ /\ fill.buy_client_fd = ord.client_fd
                 /\ fill.sell_client_fd = Book!Resting.client_fd
              \/ /\ fill.buy_client_fd = Book!Resting.client_fd
                 /\ fill.sell_client_fd = ord.client_fd
<1>1. PICK fill : fill = Book!FillOf(Book!Resting, ord, qty)
  OBVIOUS
<1>2. ord \in Book!Order /\ Book!Resting \in Book!Order /\ qty \in Nat
  BY TradeInHistory
<1>3. /\ fill \in Book!Fill /\ fill.quantity = qty /\ fill.instrument = ord.instrument
      /\ \/ /\ fill.buy_client_fd = ord.client_fd
            /\ fill.sell_client_fd = Book!Resting.client_fd
         \/ /\ fill.buy_client_fd = Book!Resting.client_fd
            /\ fill.sell_client_fd = ord.client_fd
  BY <1>1, <1>2 DEF Book!FillOf, Book!Fill, Book!Order
<1>4. Ref!Trade(qty) /\ fill = Ref!FillOf(Ref!Resting, ord, qty)
  BY <1>1 DEF Book!Trade, Ref!Trade, Book!Resting, Ref!Resting, Book!OppList, Ref!OppList,
            Book!OppositeSide, Ref!OppositeSide, Book!Crosses, Ref!Crosses, Book!FillOf,
            Ref!FillOf, Book!CapacityAfterRealloc, Ref!CapacityAfterRealloc,
            Book!Recorded, Ref!Recorded
<1>5. /\ Ref!FillsFit'
      /\ fills' = fills \/ fills' = Append(fills, fill)
      /\ ~AllocMayFail => fills' = Append(fills, fill)
  BY <1>4, Ref!TradeRecords, RefHypotheses DEF MarketInv
<1> QED
  BY <1>3, <1>5

(* Each step of the walk adds to what is owed what its fill will be        *)
(* reported as.                                                            *)
LEMMA TradeKeepsBalance ==
  ASSUME AccountInv, Book!Walking,
         NEW qty, qty = Book!ExecutedQuantity(Book!Resting, ord), Book!Trade(qty),
         conns' = conns, unreported' = [c \in Clients |-> unreported[c] + Owed(c)],
         NEW c \in Clients
  PROVE  unreported'[c] \in Nat /\ Balanced(c)'
<1>1. /\ MarketInv /\ GoneInv /\ Ref!FillsFit /\ fills \in Seq(Book!Fill)
      /\ unreported[c] \in Nat /\ IsFiniteSet(For(fills, c))
      /\ AmountFor(fills, c) <= unreported[c]
      /\ ~AllocMayFail => AmountFor(fills, c) = unreported[c]
      /\ unreported'[c] = unreported[c] + Owed(c)
  BY FillTypes DEF AccountInv, Balanced
<1>2. PICK fill \in Book!Fill :
        /\ fills' = fills \/ fills' = Append(fills, fill)
        /\ ~AllocMayFail => fills' = Append(fills, fill)
        /\ fill.quantity = qty /\ fill.instrument = ord.instrument
        /\ \/ /\ fill.buy_client_fd = ord.client_fd
              /\ fill.sell_client_fd = Book!Resting.client_fd
           \/ /\ fill.buy_client_fd = Book!Resting.client_fd
              /\ fill.sell_client_fd = ord.client_fd
  BY <1>1, FillOfTrade
<1>3. qty \in Nat /\ AmountFor(fills, c) \in Nat
  BY <1>1, TradeInHistory, AmountType
<1>4. For(fills, c)' = For(fills', c) /\ AmountFor(fills, c)' = AmountFor(fills', c)
  BY DEF For, AmountFor, Connected, Subscribers
<1>5. CASE ~Present(c)
  <2>1. Owed(c) = 0
    BY <1>5, NothingOwed
  <2>2. For(fills', c) = {} /\ AmountFor(fills', c) = 0 /\ AmountFor(fills, c) = 0
    BY <1>5, NothingFor
  <2> QED
    BY <1>1, <1>4, <2>1, <2>2, FS_EmptySet DEF Balanced
<1>6. CASE Present(c)
  <2>1. PICK s \in Connected : c = conns[s].client
    BY <1>6 DEF Present
  <2>2. \A fd \in Connected : conns[fd].client = conns[s].client => fd = s
    BY <1>1, UniqueSlot
  <2>3. Owed(c) = (IF ord.client_fd = s THEN qty ELSE 0)
                  + (IF Book!Resting.client_fd = s THEN qty ELSE 0)
                  + (IF s \in Subscribers(ord.instrument) THEN qty ELSE 0)
    BY <1>1, <2>1, OwedByTrade
  <2>4. Owed(c) = (IF fill.buy_client_fd = s THEN fill.quantity ELSE 0)
                  + (IF fill.sell_client_fd = s THEN fill.quantity ELSE 0)
                  + (IF s \in Subscribers(fill.instrument) THEN fill.quantity ELSE 0)
    BY <1>2, <1>3, <2>3
  <2>5. Owed(c) \in Nat
    BY <1>2, <1>3, <2>4
  <2>6. /\ IsFiniteSet(For(Append(fills, fill), c))
        /\ AmountFor(Append(fills, fill), c) = AmountFor(fills, c) + Owed(c)
    <3>1. /\ IsFiniteSet(For(Append(fills, fill), c))
          /\ AmountFor(Append(fills, fill), c) =
               AmountFor(fills, c)
               + (IF fill.buy_client_fd = s THEN fill.quantity ELSE 0)
               + (IF fill.sell_client_fd = s THEN fill.quantity ELSE 0)
               + (IF s \in Subscribers(fill.instrument) THEN fill.quantity ELSE 0)
      BY <1>1, <2>1, <2>2, AmountAppended
    <3> QED
      BY <1>2, <1>3, <2>4, <3>1
  <2>7. CASE fills' = Append(fills, fill)
    <3>1. IsFiniteSet(For(fills', c)) /\ AmountFor(fills', c) = AmountFor(fills, c) + Owed(c)
      BY <2>6, <2>7
    <3> QED
      BY <1>1, <1>3, <1>4, <2>5, <3>1 DEF Balanced
  <2>8. CASE fills' = fills /\ AllocMayFail
    <3>1. IsFiniteSet(For(fills', c)) /\ AmountFor(fills', c) = AmountFor(fills, c)
      BY <1>1, <2>8
    <3> QED
      BY <1>1, <1>3, <1>4, <2>5, <2>8, <3>1 DEF Balanced
  <2> QED
    BY <1>2, <2>7, <2>8
<1> QED
  BY <1>5, <1>6

(* With no fills recorded nothing is to be reported, and what is owed is    *)
(* no less than before or struck off.                                      *)
LEMMA NoFillsKeepBalance ==
  ASSUME fills' = <<>>, NEW c, unreported'[c] \in Nat,
         ~AllocMayFail => unreported'[c] = 0
  PROVE  Balanced(c)'
<1>1. DOMAIN fills' = {}
  OBVIOUS
<1>2. For(fills, c)' = {}
  BY <1>1 DEF For
<1>3. PICK f : f = [n \in For(fills, c)' |-> fills'[n[1]].quantity]
  OBVIOUS
<1>4. DOMAIN f = {}
  BY <1>2, <1>3
<1>5. SumFunction(f) = 0
  BY <1>4, FS_EmptySet, SumRecursion DEF SumFunction
<1>6. AmountFor(fills, c)' = 0
  BY <1>3, <1>5 DEF AmountFor
<1> QED
  BY <1>2, <1>6, FS_EmptySet DEF Balanced

LEMMA QuietStepKeepsAccounts ==
  ASSUME AccountInv, ord = NoOrder, fills' = <<>>, unreported' \in [Clients -> Nat],
         \A c \in Clients : unreported'[c] \in {0, unreported[c]}
  PROVE  \A c \in Clients : Balanced(c)'
<1>1. \A c \in Clients : ~AllocMayFail => unreported[c] = 0
  BY NothingFor DEF AccountInv, Balanced
<1>2. \A c \in Clients : unreported'[c] \in Nat /\ (~AllocMayFail => unreported'[c] = 0)
  BY <1>1
<1> QED
  BY <1>2, NoFillsKeepBalance

LEMMA SameFillsSameBalance ==
  ASSUME conns' = conns, fills' = fills, unreported' = unreported, NEW c, Balanced(c)
  PROVE  Balanced(c)'
<1>1. For(fills, c)' = For(fills, c)
  BY DEF For, Connected, Subscribers
<1>2. AmountFor(fills, c)' = AmountFor(fills, c)
  BY <1>1 DEF AmountFor
<1> QED
  BY <1>1, <1>2 DEF Balanced

LEMMA WalkKeepsAccounts ==
  ASSUME AccountInv, Walk
  PROVE  /\ Ref!FillsFit'
         /\ ord' # NoOrder
         /\ unreported' \in [Clients -> Nat]
         /\ \A c \in Clients : Balanced(c)'
<1>1. /\ conns' = conns /\ unreported' = [c \in Clients |-> unreported[c] + Owed(c)]
      /\ MarketInv /\ GoneInv /\ Ref!FillsFit /\ BookTypes
  BY DEF Walk, connVars, AccountInv, MarketInv, OwnerInv
<1>2. CASE Book!Skip
  <2>1. /\ fills' = fills /\ cap' = cap /\ ord' = ord /\ ord # NoOrder
    BY <1>2 DEF Book!Skip, Book!Walking
  <2>2. \A c \in Clients : Owed(c) = 0
    BY <1>1, <1>2, SkipOwesNothing
  <2>3. unreported' = unreported
    BY <1>1, <2>2 DEF AccountInv
  <2>4. \A c \in Clients : Balanced(c)'
    BY <1>1, <2>1, <2>3, SameFillsSameBalance DEF AccountInv
  <2> QED
    BY <1>1, <2>1, <2>3, <2>4 DEF AccountInv, Ref!FillsFit
<1>3. CASE Book!ExecuteAll \/ Book!ExecutePart
  <2>1. PICK qty : /\ Book!Walking /\ qty = Book!ExecutedQuantity(Book!Resting, ord)
                   /\ Book!Trade(qty)
    BY <1>3 DEF Book!ExecuteAll, Book!ExecutePart
  <2>2. \A c \in Clients : unreported'[c] \in Nat /\ Balanced(c)'
    BY <1>1, <2>1, TradeKeepsBalance
  <2>3. Ref!FillsFit'
    BY <1>1, <2>1, FillOfTrade
  <2>4. ord' # NoOrder
    BY <1>1, <2>1, TradedOrder, BookAssumption
  <2> QED
    BY <1>1, <2>2, <2>3, <2>4
<1> QED
  BY <1>2, <1>3 DEF Walk

LEMMA ReportKeepsAccounts ==
  ASSUME AccountInv, Report
  PROVE  /\ fills' = <<>> /\ cap' = 0
         /\ unreported' \in [Clients -> Nat]
         /\ \A c \in Clients : Balanced(c)'
<1>1. /\ fills' = <<>> /\ cap' = 0
      /\ unreported' = [c \in Clients |-> unreported[c] - QuantityFor(c)]
  BY DEF Report, Book!Return
<1>2. ASSUME NEW c \in Clients
      PROVE  unreported'[c] \in Nat /\ (~AllocMayFail => unreported'[c] = 0)
  <2>1. /\ unreported[c] \in Nat /\ AmountFor(fills, c) <= unreported[c]
        /\ ~AllocMayFail => AmountFor(fills, c) = unreported[c]
        /\ IsFiniteSet(For(fills, c)) /\ fills \in Seq(Book!Fill)
    BY FillTypes DEF AccountInv, Balanced
  <2>2. AmountFor(fills, c) \in Nat
    BY <2>1, AmountType
  <2>3. unreported'[c] = unreported[c] - AmountFor(fills, c)
    BY <1>1, QuantityIsAmount
  <2> QED
    BY <2>1, <2>2, <2>3
<1> QED
  BY <1>1, <1>2, NoFillsKeepBalance

LEMMA NextKeepsAccountInv == AccountInv /\ [Next]_vars => AccountInv'
<1> SUFFICES ASSUME AccountInv, [Next]_vars PROVE AccountInv'
  OBVIOUS
<1>0. MarketInv' /\ GoneInv'
  BY NextKeepsSessionInv, NextKeepsOwnerInv, NextKeepsBook, NextKeepsSlots, NextKeepsGone
     DEF MarketInv, AccountInv
<1> SUFFICES /\ Ref!FillsFit'
             /\ ord' = NoOrder => fills' = <<>>
             /\ unreported' \in [Clients -> Nat]
             /\ \A c \in Clients : Balanced(c)'
  BY <1>0 DEF AccountInv
<1>1. unreported \in [Clients -> Nat] /\ Ref!FillsFit /\ (ord = NoOrder => fills = <<>>)
  BY DEF AccountInv
<1>2. Len(<<>>) = 0
  OBVIOUS
<1>3. CASE Walk
  BY <1>3, WalkKeepsAccounts
<1>4. CASE Report
  <2>1. /\ fills' = <<>> /\ cap' = 0
        /\ unreported' \in [Clients -> Nat]
        /\ \A c \in Clients : Balanced(c)'
    BY <1>4, ReportKeepsAccounts
  <2> QED
    BY <1>2, <2>1 DEF Ref!FillsFit
<1>5. CASE \/ Connect
           \/ \E fd \in Fds : \/ \E name \in Names : LoginUser(fd, name)
                              \/ \E instrument \in Instruments :
                                   SubscribeClient(fd, instrument) \/ UnsubscribeClient(fd, instrument)
                              \/ QuitUser(fd)
                              \/ \E id \in OrderIds : CancelUserOrder(fd, id)
                              \/ Depart(fd)
  <2>1. /\ ord = NoOrder /\ ord' = ord /\ fills' = fills /\ cap' = cap
        /\ unreported' = unreported
    BY <1>5 DEF Connect, LoginUser, SubscribeClient, UnsubscribeClient, QuitUser,
                CancelUserOrder, Depart, Listening, Idle, Book!CancelOrder, history, bookVars
  <2> QED
    BY <1>1, <2>1, QuietStepKeepsAccounts DEF Ref!FillsFit
<1>6. CASE \E fd \in Fds, side \in Book!Sides, listing \in Listings, amount \in Amounts :
             PlaceOrder(fd, side, listing, amount)
  <2>1. /\ ord = NoOrder /\ fills' = <<>> /\ cap' = 0 /\ unreported' = unreported
    BY <1>6 DEF PlaceOrder, Book!PlaceOrder
  <2> QED
    BY <1>1, <1>2, <2>1, QuietStepKeepsAccounts DEF Ref!FillsFit
<1>7. CASE \E fd \in Fds : RemoveClient(fd)
  <2>1. PICK fd \in Fds : RemoveClient(fd)
    BY <1>7
  <2>2. /\ ord = NoOrder /\ ord' = ord /\ fills' = fills /\ cap' = cap
        /\ unreported' = [unreported EXCEPT ![conns[fd].client] = 0]
    BY <2>1 DEF RemoveClient, OrdersReleased, Book!DetachClientOrders
  <2>3. /\ unreported' \in [Clients -> Nat]
        /\ \A c \in Clients : unreported'[c] \in {0, unreported[c]}
    BY <1>1, <2>2
  <2> QED
    BY <1>1, <2>2, <2>3, QuietStepKeepsAccounts DEF Ref!FillsFit
<1>8. CASE UNCHANGED vars
  <2>1. /\ ord' = ord /\ fills' = fills /\ cap' = cap /\ unreported' = unreported /\ conns' = conns
    BY <1>8 DEF vars, connVars, history, bookVars
  <2>2. \A c \in Clients : Balanced(c)'
    BY <2>1, SameFillsSameBalance DEF AccountInv
  <2> QED
    BY <1>1, <2>1, <2>2 DEF Ref!FillsFit
<1> QED
  BY <1>3, <1>4, <1>5, <1>6, <1>7, <1>8 DEF Next

LEMMA InitAccountInv == Init => AccountInv
<1> SUFFICES ASSUME Init PROVE AccountInv
  OBVIOUS
<1>1. /\ fills = <<>> /\ cap = 0 /\ ord = NoOrder /\ unreported = [c \in Clients |-> 0]
      /\ book = [q \in Book!Queues |-> <<>>]
  BY DEF Init, Book!Init
<1>2. MarketInv
  <2>1. SlotInv
    BY DEF Init, SlotInv, Connected
  <2> QED
    BY <2>1, InitSessionInv, InitOwnerInv, InitKeepsBook DEF MarketInv
<1>3. GoneInv
  <2>1. \A o : o \notin Orders
    BY <1>1 DEF Orders, Book!AllResting, Book!RestingIn
  <2> QED
    BY <2>1 DEF GoneInv
<1>4. Ref!FillsFit
  <2>1. Len(<<>>) = 0
    OBVIOUS
  <2> QED
    BY <1>1, <2>1 DEF Ref!FillsFit
<1>5. \A c \in Clients : Balanced(c)
  BY <1>1, NothingFor, FS_EmptySet DEF Balanced
<1> QED
  BY <1>1, <1>2, <1>3, <1>4, <1>5 DEF AccountInv

LEMMA AccountInvHolds == Spec => []AccountInv
  BY InitAccountInv, NextKeepsAccountInv, PTL DEF Spec

(* Between two commands nobody who is connected is owed a report: each     *)
(* trader has been sent its own orders' share of every execution and each  *)
(* subscriber every trade of its instruments (commands.c, placeOrder's     *)
(* loop), for every number of clients and orders.  While memory lasts: a   *)
(* fill that realloc leaves no room for is reported to nobody.             *)
THEOREM AllReportedHolds ==
  ASSUME ~AllocMayFail
  PROVE  Spec => []AllReported
<1>1. AccountInv => AllReported
  BY NothingFor DEF AccountInv, Balanced, AllReported
<1> QED
  BY <1>1, AccountInvHolds, PTL

(* What the types of Exchange add to those of AccountInv.                  *)
LogInv ==
  /\ done \in BOOLEAN
  /\ asked \in [OrderIds -> Int]
  /\ silenced \subseteq Clients

LEMMA NextKeepsLogInv == AccountInv /\ LogInv /\ [Next]_vars => LogInv'
<1> SUFFICES ASSUME AccountInv, LogInv, [Next]_vars PROVE LogInv'
  OBVIOUS
<1>1. SessionTypes
  BY DEF AccountInv, MarketInv, SessionInv
<1>2. CASE \E fd \in Fds, side \in Book!Sides, listing \in Listings, amount \in Amounts :
             PlaceOrder(fd, side, listing, amount)
  <2>1. PICK amount \in Amounts : asked' = [asked EXCEPT ![next_order_id] = amount]
    BY <1>2 DEF PlaceOrder
  <2>2. amount \in Int
    BY WidthAssumption
  <2>3. done' \in BOOLEAN /\ silenced' = silenced
    BY <1>2 DEF PlaceOrder
  <2> QED
    BY <2>1, <2>2, <2>3 DEF LogInv
<1>3. CASE Report
  <2>1. PICK failed \in SUBSET Notifications :
          silenced' = silenced \cup {conns[n[3]].client : n \in failed}
    BY <1>3 DEF Report
  <2>2. \A n \in failed : n[3] \in Connected
    BY DEF Notifications
  <2>3. \A n \in failed : conns[n[3]].client \in Clients
    BY <1>1, <2>2, ConnectedIsConnection DEF Connection
  <2>4. done' \in BOOLEAN /\ asked' = asked
    BY <1>3 DEF Report
  <2> QED
    BY <2>1, <2>3, <2>4 DEF LogInv
<1>4. CASE \E fd \in Fds : RemoveClient(fd)
  BY <1>4 DEF RemoveClient, LogInv
<1>5. CASE \/ Connect \/ Walk \/ UNCHANGED vars
           \/ \E fd \in Fds : \/ \E name \in Names : LoginUser(fd, name)
                              \/ \E instrument \in Instruments :
                                   SubscribeClient(fd, instrument) \/ UnsubscribeClient(fd, instrument)
                              \/ QuitUser(fd)
                              \/ \E id \in OrderIds : CancelUserOrder(fd, id)
                              \/ Depart(fd)
  <2>1. done' = done /\ asked' = asked /\ silenced' = silenced
    BY <1>5 DEF Connect, LoginUser, SubscribeClient, UnsubscribeClient, QuitUser,
                CancelUserOrder, Depart, Walk, history, connVars, vars
  <2> QED
    BY <2>1 DEF LogInv
<1> QED
  BY <1>2, <1>3, <1>4, <1>5 DEF Next

(* Every variable of Exchange keeps its type.  That the quantity still     *)
(* owed to a client is a natural number says that placeOrder's loop sends  *)
(* nobody an execution that is not its own or not its market's: a report   *)
(* can only take off what an execution has put there.                      *)
THEOREM ExchangeTypeOK == Spec => []TypeOK
<1>1. Init => LogInv
  <2> SUFFICES ASSUME Init PROVE LogInv
    OBVIOUS
  <2>1. done = FALSE /\ asked = [id \in OrderIds |-> 0] /\ silenced = {}
    BY DEF Init
  <2>2. asked \in [OrderIds -> Int]
    BY <2>1
  <2> QED
    BY <2>1, <2>2 DEF LogInv
<1>2. AccountInv /\ LogInv => TypeOK
  <2> SUFFICES ASSUME AccountInv, LogInv PROVE TypeOK
    OBVIOUS
  <2>1. leaving \in Fds \cup {NoFd}
    BY DEF AccountInv, MarketInv, SlotInv, Connected
  <2> QED
    BY <2>1 DEF AccountInv, LogInv, MarketInv, SessionInv, SessionTypes, OwnerInv,
                HistoryTypes, TypeOK
<1> QED
  BY <1>1, <1>2, InitAccountInv, NextKeepsAccountInv, NextKeepsLogInv, PTL DEF Spec
=============================================================================
