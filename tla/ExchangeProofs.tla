---------------------------- MODULE ExchangeProofs ----------------------------
(***************************************************************************)
(* Theorems about Exchange for every number of clients, every set of       *)
(* descriptors and names, and every number of orders.                      *)
(***************************************************************************)
EXTENDS Exchange, DataLemmas

-----------------------------------------------------------------------------
(* Names and roles *)

SessionTypes ==
  /\ conns \in [Fds -> Connection \cup {NoConnection}]
  /\ arrived \in 0 .. MaxClients

SessionInv == SessionTypes /\ NamesUnique /\ RolesExclusive

(* accept() hands out a descriptor that is free.                           *)
LEMMA LowestFreeIsFree ==
  ASSUME Connected # Fds
  PROVE  Min(Fds \ Connected) \in Fds \ Connected
<1>1. Fds \ Connected \subseteq Nat /\ Fds \ Connected # {}
  BY FdAssumption DEF Connected
<1>2. \E x \in Fds \ Connected : \A y \in Fds \ Connected : x <= y
  BY <1>1, LeastNatural
<1> QED
  BY <1>2 DEF Min

LEMMA FreshIsConnection ==
  ASSUME NEW c \in Clients
  PROVE  Fresh(c) \in Connection
  BY DEF Fresh, Connection

(* A record that is a connection and not the empty slot.                   *)
LEMMA ConnectedIsConnection ==
  ASSUME SessionTypes, NEW fd \in Connected
  PROVE  conns[fd] \in Connection /\ fd \in Fds
  BY DEF SessionTypes, Connected

(* What replaces one slot of the table by a connection keeps the others.   *)
LEMMA UpdatedSlot ==
  ASSUME SessionTypes, NEW fd \in Fds, NEW conn \in Connection,
         conns' = [conns EXCEPT ![fd] = conn]
  PROVE  /\ conns' \in [Fds -> Connection \cup {NoConnection}]
         /\ conns'[fd] = conn
         /\ \A other \in Fds \ {fd} : conns'[other] = conns[other]
         /\ Connected' = Connected \cup {fd}
<1>1. /\ conns' \in [Fds -> Connection \cup {NoConnection}]
      /\ conns'[fd] = conn
      /\ \A other \in Fds \ {fd} : conns'[other] = conns[other]
  BY DEF SessionTypes
<1>2. conn # NoConnection
  BY NamingAssumption
<1> QED
  BY <1>1, <1>2 DEF Connected

LEMMA ConnectKeepsSessionInv ==
  ASSUME SessionInv, Connect
  PROVE  SessionInv'
<1> DEFINE fd == Min(Fds \ Connected)
<1>1. fd \in Fds \ Connected
  BY LowestFreeIsFree DEF Connect
<1>2. arrived + 1 \in Clients /\ arrived' = arrived + 1 /\ arrived' \in 0 .. MaxClients
  BY BoundAssumption DEF Connect, Clients, SessionInv, SessionTypes
<1> HIDE DEF fd
<1>3. conns' = [conns EXCEPT ![fd] = Fresh(arrived + 1)]
  BY DEF Connect, fd
<1>4. /\ conns' \in [Fds -> Connection \cup {NoConnection}]
      /\ conns'[fd] = Fresh(arrived + 1)
      /\ \A other \in Fds \ {fd} : conns'[other] = conns[other]
      /\ Connected' = Connected \cup {fd}
  BY <1>1, <1>2, <1>3, FreshIsConnection, UpdatedSlot DEF SessionInv
<1>5. conns'[fd].username = NoName /\ conns'[fd].subscribed = {}
  BY <1>4 DEF Fresh
<1> QED
  BY <1>2, <1>4, <1>5, ConnectedIsConnection DEF SessionInv, SessionTypes, NamesUnique, RolesExclusive

LEMMA LoginUserKeepsSessionInv ==
  ASSUME SessionInv, NEW fd \in Fds, NEW name \in Names, LoginUser(fd, name)
  PROVE  SessionInv'
<1> DEFINE conn == LoggedIn(conns[fd], name)
<1>1. fd \in Connected /\ conns[fd] \in Connection
  BY ConnectedIsConnection DEF LoginUser, Listening, SessionInv
<1>2. /\ conn \in Connection
      /\ conn.username = name /\ conn.type = "trader" /\ conn.subscribed = conns[fd].subscribed
  BY <1>1 DEF LoggedIn, Connection
<1>3. conns[fd].subscribed = {}
  BY <1>1 DEF LoginUser, SessionInv, RolesExclusive
<1>4. conns' = [conns EXCEPT ![fd] = conn] /\ arrived' = arrived
  BY DEF LoginUser
<1> HIDE DEF conn
<1>5. /\ conns' \in [Fds -> Connection \cup {NoConnection}]
      /\ conns'[fd] = conn
      /\ \A other \in Fds \ {fd} : conns'[other] = conns[other]
      /\ Connected' = Connected
  <2>1. SessionTypes /\ fd \in Fds
    BY DEF SessionInv
  <2>2. /\ conns' \in [Fds -> Connection \cup {NoConnection}]
        /\ conns'[fd] = conn
        /\ \A other \in Fds \ {fd} : conns'[other] = conns[other]
        /\ Connected' = Connected \cup {fd}
    BY <1>2, <1>4, <2>1, UpdatedSlot
  <2>3. Connected' = Connected
    BY <1>1, <2>2
  <2> QED
    BY <2>2, <2>3
<1>6. \A other \in Connected : conns[other].username # name /\ other \in Fds
  BY DEF LoginUser, NameInUse, Connected
<1>7. NamesUnique'
  BY <1>2, <1>5, <1>6 DEF SessionInv, NamesUnique
<1>8. RolesExclusive'
  BY <1>2, <1>3, <1>5, <1>6 DEF SessionInv, RolesExclusive
<1> QED
  BY <1>4, <1>5, <1>7, <1>8 DEF SessionInv, SessionTypes

(* A change of one connection's subscriptions or of its closing flag.      *)
LEMMA SameNameKeepsSessionInv ==
  ASSUME SessionInv, NEW fd \in Connected, NEW conn \in Connection,
         conns' = [conns EXCEPT ![fd] = conn], arrived' = arrived,
         conn.username = conns[fd].username,
         conn.username # NoName => conn.type = "trader",
         conn.subscribed # {} => conn.type = "market"
  PROVE  SessionInv'
<1>1. /\ conns' \in [Fds -> Connection \cup {NoConnection}]
      /\ conns'[fd] = conn
      /\ \A other \in Fds \ {fd} : conns'[other] = conns[other]
      /\ Connected' = Connected
  <2>1. SessionTypes /\ fd \in Fds
    BY ConnectedIsConnection DEF SessionInv
  <2>2. /\ conns' \in [Fds -> Connection \cup {NoConnection}]
        /\ conns'[fd] = conn
        /\ \A other \in Fds \ {fd} : conns'[other] = conns[other]
        /\ Connected' = Connected \cup {fd}
    BY <2>1, UpdatedSlot
  <2>3. Connected' = Connected
    BY <2>2
  <2> QED
    BY <2>2, <2>3
<1>2. \A other \in Connected : other \in Fds
  BY DEF Connected
<1> QED
  BY <1>1, <1>2 DEF SessionInv, SessionTypes, NamesUnique, RolesExclusive

LEMMA SubscribeClientKeepsSessionInv ==
  ASSUME SessionInv, NEW fd \in Fds, NEW instrument \in Instruments,
         SubscribeClient(fd, instrument)
  PROVE  SessionInv'
<1> DEFINE conn == Subscribed(conns[fd], instrument)
<1>1. fd \in Connected /\ conns[fd] \in Connection
  BY ConnectedIsConnection DEF SubscribeClient, Listening, SessionInv
<1>2. conn \in Connection /\ conn.username = conns[fd].username /\ conn.type = "market"
  BY <1>1 DEF Subscribed, Connection
<1>3. conns[fd].username = NoName
  BY <1>1 DEF SubscribeClient, SessionInv, RolesExclusive
<1>4. conns' = [conns EXCEPT ![fd] = conn] /\ arrived' = arrived
  BY DEF SubscribeClient
<1> QED
  BY <1>1, <1>2, <1>3, <1>4, SameNameKeepsSessionInv

LEMMA UnsubscribeClientKeepsSessionInv ==
  ASSUME SessionInv, NEW fd \in Fds, NEW instrument \in Instruments,
         UnsubscribeClient(fd, instrument)
  PROVE  SessionInv'
<1> DEFINE conn == [conns[fd] EXCEPT !.subscribed = conns[fd].subscribed \ {instrument}]
<1>1. fd \in Connected /\ conns[fd] \in Connection
  BY ConnectedIsConnection DEF UnsubscribeClient, Listening, SessionInv
<1>2. /\ conn \in Connection
      /\ conn.username = conns[fd].username /\ conn.type = conns[fd].type
      /\ conn.subscribed = conns[fd].subscribed \ {instrument}
  BY <1>1 DEF Connection
<1>3. /\ conns[fd].username # NoName => conns[fd].type = "trader"
      /\ conns[fd].subscribed # {} => conns[fd].type = "market"
  BY <1>1 DEF SessionInv, RolesExclusive
<1>4. conns' = [conns EXCEPT ![fd] = conn] /\ arrived' = arrived
  BY DEF UnsubscribeClient
<1> QED
  BY <1>1, <1>2, <1>3, <1>4, SameNameKeepsSessionInv

LEMMA QuitUserKeepsSessionInv ==
  ASSUME SessionInv, NEW fd \in Fds, QuitUser(fd)
  PROVE  SessionInv'
<1> DEFINE conn == [conns[fd] EXCEPT !.closing = TRUE]
<1>1. fd \in Connected /\ conns[fd] \in Connection
  BY ConnectedIsConnection DEF QuitUser, Listening, SessionInv
<1>2. /\ conn \in Connection
      /\ conn.username = conns[fd].username /\ conn.type = conns[fd].type
      /\ conn.subscribed = conns[fd].subscribed
  BY <1>1 DEF Connection
<1>3. /\ conns[fd].username # NoName => conns[fd].type = "trader"
      /\ conns[fd].subscribed # {} => conns[fd].type = "market"
  BY <1>1 DEF SessionInv, RolesExclusive
<1>4. conns' = [conns EXCEPT ![fd] = conn] /\ arrived' = arrived
  BY DEF QuitUser
<1> QED
  BY <1>1, <1>2, <1>3, <1>4, SameNameKeepsSessionInv

LEMMA RemoveClientKeepsSessionInv ==
  ASSUME SessionInv, NEW fd \in Fds, RemoveClient(fd)
  PROVE  SessionInv'
<1>1. /\ conns' = [conns EXCEPT ![fd] = NoConnection] /\ arrived' = arrived
      /\ conns \in [Fds -> Connection \cup {NoConnection}]
  BY DEF RemoveClient, SessionInv, SessionTypes
<1>2. Connected' = Connected \ {fd} /\ \A other \in Connected' : conns'[other] = conns[other]
  BY <1>1 DEF Connected
<1> QED
  BY <1>1, <1>2 DEF SessionInv, SessionTypes, NamesUnique, RolesExclusive

LEMMA SameSessions ==
  ASSUME SessionInv, UNCHANGED <<conns, arrived>>
  PROVE  SessionInv'
  BY DEF SessionInv, SessionTypes, NamesUnique, RolesExclusive, Connected

LEMMA NextKeepsSessionInv == SessionInv /\ [Next]_vars => SessionInv'
<1> SUFFICES ASSUME SessionInv, [Next]_vars PROVE SessionInv'
  OBVIOUS
<1>1. CASE Connect
  BY <1>1, ConnectKeepsSessionInv
<1>2. CASE \E fd \in Fds, name \in Names : LoginUser(fd, name)
  BY <1>2, LoginUserKeepsSessionInv
<1>3. CASE \E fd \in Fds, instrument \in Instruments :
             SubscribeClient(fd, instrument) \/ UnsubscribeClient(fd, instrument)
  BY <1>3, SubscribeClientKeepsSessionInv, UnsubscribeClientKeepsSessionInv
<1>4. CASE \E fd \in Fds : QuitUser(fd)
  BY <1>4, QuitUserKeepsSessionInv
<1>5. CASE \E fd \in Fds, side \in Book!Sides, listing \in Listings, amount \in Amounts :
             PlaceOrder(fd, side, listing, amount)
  BY <1>5, SameSessions DEF PlaceOrder
<1>6. CASE \E fd \in Fds, id \in OrderIds : CancelUserOrder(fd, id)
  BY <1>6, SameSessions DEF CancelUserOrder
<1>7. CASE \E fd \in Fds : Depart(fd)
  BY <1>7, SameSessions DEF Depart
<1>8. CASE \E fd \in Fds : RemoveClient(fd)
  BY <1>8, RemoveClientKeepsSessionInv
<1>9. CASE Walk \/ Report
  BY <1>9, SameSessions DEF Walk, Report, connVars
<1>10. CASE UNCHANGED vars
  BY <1>10, SameSessions DEF vars, connVars
<1> QED
  BY <1>1, <1>2, <1>3, <1>4, <1>5, <1>6, <1>7, <1>8, <1>9, <1>10 DEF Next

LEMMA InitSessionInv == Init => SessionInv
  BY BoundAssumption DEF Init, SessionInv, SessionTypes, NamesUnique, RolesExclusive, Connected

(* A username names one connection, for every number of clients, names and *)
(* descriptors (commands.c:22).                                             *)
THEOREM NamesUniqueHolds == Spec => []NamesUnique
<1>1. SessionInv => NamesUnique
  BY DEF SessionInv
<1> QED
  BY <1>1, InitSessionInv, NextKeepsSessionInv, PTL DEF Spec

(* No connection has both roles, in whatever order LOGIN, SUBSCRIBE and    *)
(* UNSUBSCRIBE come (commands.c:16, 41, 75).                                *)
THEOREM RolesExclusiveHolds == Spec => []RolesExclusive
<1>1. SessionInv => RolesExclusive
  BY DEF SessionInv
<1> QED
  BY <1>1, InitSessionInv, NextKeepsSessionInv, PTL DEF Spec
-----------------------------------------------------------------------------
(* The use of the book *)

(* What an accepted BUY or SELL asks of the book is a call it expects.     *)
LEMMA AcceptedCall ==
  ASSUME NEW fd \in Fds, NEW side \in Book!Sides, NEW listing \in Listings,
         NEW amount \in Amounts, PlaceOrder(fd, side, listing, amount)
  PROVE  /\ ToInt(amount) \in Quantities
         /\ <<listing[1], ToInt(listing[2])>> \in Listings
         /\ Book!PlaceOrder(fd, side, listing[1], ToInt(amount), ToInt(listing[2]))
  BY BookAssumption DEF PlaceOrder

(* What a command does to the book is a step of OrderBook or none.         *)
LEMMA NextUsesBook == [Next]_vars => [Book!Next]_(Book!vars)
<1> SUFFICES ASSUME [Next]_vars PROVE [Book!Next]_(Book!vars)
  OBVIOUS
<1>1. ASSUME UNCHANGED bookVars PROVE UNCHANGED Book!vars
  BY <1>1 DEF bookVars, Book!vars, Book!bookVars, Book!history
<1>2. CASE Connect
  BY <1>1, <1>2 DEF Connect
<1>3. CASE \E fd \in Fds, name \in Names : LoginUser(fd, name)
  BY <1>1, <1>3 DEF LoginUser
<1>4. CASE \E fd \in Fds, instrument \in Instruments :
             SubscribeClient(fd, instrument) \/ UnsubscribeClient(fd, instrument)
  BY <1>1, <1>4 DEF SubscribeClient, UnsubscribeClient
<1>5. CASE \E fd \in Fds : QuitUser(fd) \/ Depart(fd)
  BY <1>1, <1>5 DEF QuitUser, Depart
<1>6. ASSUME NEW fd \in Fds, NEW side \in Book!Sides, NEW listing \in Listings,
             NEW amount \in Amounts, PlaceOrder(fd, side, listing, amount)
      PROVE  Book!Next
  <2> DEFINE call == <<listing[1], ToInt(listing[2])>>
  <2>1. /\ ToInt(amount) \in Quantities
        /\ call \in Listings
        /\ Book!PlaceOrder(fd, side, call[1], ToInt(amount), call[2])
    BY <1>6, AcceptedCall
  <2> HIDE DEF call
  <2> QED
    BY <2>1 DEF Book!Next
<1>7. ASSUME NEW fd \in Fds, NEW id \in OrderIds, CancelUserOrder(fd, id)
      PROVE  Book!Next
  BY <1>7 DEF CancelUserOrder, Book!Next, OrderIds
<1>8. ASSUME NEW fd \in Fds, RemoveClient(fd) PROVE Book!Next
  BY <1>8 DEF RemoveClient, OrdersReleased, Book!Next
<1>9. CASE Walk \/ Report
  BY <1>9 DEF Walk, Report, Book!Next
<1>10. CASE UNCHANGED vars
  BY <1>1, <1>10 DEF vars
<1> QED
  BY <1>2, <1>3, <1>4, <1>5, <1>6, <1>7, <1>8, <1>9, <1>10 DEF Next

-----------------------------------------------------------------------------
(* Owners *)

(* The orders of the book and the one that is being placed.                *)
Orders == Book!AllResting \cup ({ord} \ {NoOrder})

BookTypes ==
  /\ book \in [Book!Queues -> Seq(Book!Order)]
  /\ ord \in Book!Order \cup {NoOrder}
  /\ cur \in Nat
  /\ ord # NoOrder => cur > 0

HistoryTypes ==
  /\ next_order_id \in 0 .. MaxOrders
  /\ owner \in [OrderIds -> Clients \cup {NoConnection}]

(* An identifier is handed out once, so a later order leaves the owners of *)
(* the earlier ones alone.                                                 *)
Issued == \A o \in Orders : o.id < next_order_id

OwnerInv ==
  /\ SessionTypes
  /\ BookTypes
  /\ HistoryTypes
  /\ Issued
  /\ OwnersAreConnected

OwnerIsConnected(o) ==
  o.client_fd # NoFd =>
    /\ o.client_fd \in Connected
    /\ conns[o.client_fd].client = owner[o.id]

LEMMA OwnersAreConnectedUnfolded ==
  OwnersAreConnected <=> \A o \in Orders : OwnerIsConnected(o)
  BY DEF OwnersAreConnected, Orders, OwnerIsConnected

LEMMA QueueElements ==
  ASSUME NEW b \in [Book!Queues -> Seq(Book!Order)], NEW q \in Book!Queues
  PROVE  /\ b[q] \in Seq(Book!Order)
         /\ Len(b[q]) \in Nat
         /\ DOMAIN b[q] = 1 .. Len(b[q])
         /\ \A i \in 1 .. Len(b[q]) : b[q][i] \in Book!Order
  BY LenProperties, ElementOfSeq

LEMMA RestingOrders ==
  ASSUME BookTypes
  PROVE  /\ \A o : o \in Book!AllResting <=>
                     \E q \in Book!Queues : \E i \in 1 .. Len(book[q]) : o = book[q][i]
         /\ \A o \in Orders : o \in Book!Order
<1>1. book \in [Book!Queues -> Seq(Book!Order)]
  BY DEF BookTypes
<1>2. \A o : o \in Book!AllResting <=>
               \E q \in Book!Queues : \E i \in 1 .. Len(book[q]) : o = book[q][i]
  BY <1>1, QueueElements DEF Book!AllResting, Book!RestingIn
<1>3. \A o \in Book!AllResting : o \in Book!Order
  BY <1>1, <1>2, QueueElements
<1> QED
  BY <1>2, <1>3 DEF Orders, BookTypes

LEMMA UnlinkedElements ==
  ASSUME NEW queue \in Seq(Book!Order), NEW i \in 1 .. Len(queue)
  PROVE  /\ Book!Unlinked(queue, i) \in Seq(Book!Order)
         /\ Len(Book!Unlinked(queue, i)) = Len(queue) - 1
         /\ \A j \in 1 .. Len(queue) - 1 :
              \E k \in 1 .. Len(queue) : Book!Unlinked(queue, i)[j] = queue[k]
<1>1. Book!Unlinked(queue, i) = RemoveAt(queue, i)
  BY DEF Book!Unlinked, Book!RemoveAt, RemoveAt
<1>2. /\ RemoveAt(queue, i) \in Seq(Book!Order)
      /\ Len(RemoveAt(queue, i)) = Len(queue) - 1
      /\ \A j \in 1 .. Len(queue) - 1 :
           RemoveAt(queue, i)[j] = IF j < i THEN queue[j] ELSE queue[j + 1]
  BY RemoveAtProperties
<1>3. Len(queue) \in Nat
  BY LenProperties
<1>4. \A j \in 1 .. Len(queue) - 1 : j \in 1 .. Len(queue) /\ j + 1 \in 1 .. Len(queue)
  BY <1>3
<1> QED
  BY <1>1, <1>2, <1>4

(* Most steps carry the orders over: there is none afterwards whose        *)
(* identifier and descriptor were not there before.                        *)
SameHolder(o, p) == o.id = p.id /\ o.client_fd = p.client_fd
Carried == \A o \in Orders' : \E p \in Orders : SameHolder(o, p)

LEMMA CarryingKeepsOwners ==
  ASSUME OwnerInv, Carried, BookTypes', UNCHANGED <<conns, arrived, owner, next_order_id>>
  PROVE  OwnerInv'
<1>1. Issued'
  BY DEF OwnerInv, Issued, Carried, SameHolder
<1>2. OwnersAreConnected'
  <2>1. \A o \in Orders : OwnerIsConnected(o)
    BY OwnersAreConnectedUnfolded DEF OwnerInv
  <2>2. \A o \in Orders' : OwnerIsConnected(o)'
    BY <2>1 DEF Carried, SameHolder, OwnerIsConnected, Connected
  <2> QED
    BY <2>2 DEF OwnersAreConnected, Orders, OwnerIsConnected
<1> QED
  BY <1>1, <1>2 DEF OwnerInv, SessionTypes, HistoryTypes

LEMMA UnlinkingCarries ==
  ASSUME BookTypes, NEW q \in Book!Queues, NEW i \in 1 .. Len(book[q]),
         book' = [book EXCEPT ![q] = Book!Unlinked(book[q], i)]
  PROVE  /\ book' \in [Book!Queues -> Seq(Book!Order)]
         /\ \A r \in Book!Queues : \A j \in 1 .. Len(book'[r]) :
              \E k \in 1 .. Len(book[r]) : book'[r][j] = book[r][k]
<1>1. book[q] \in Seq(Book!Order) /\ book \in [Book!Queues -> Seq(Book!Order)]
  BY DEF BookTypes
<1>2. /\ Book!Unlinked(book[q], i) \in Seq(Book!Order)
      /\ Len(Book!Unlinked(book[q], i)) = Len(book[q]) - 1
      /\ \A j \in 1 .. Len(book[q]) - 1 :
           \E k \in 1 .. Len(book[q]) : Book!Unlinked(book[q], i)[j] = book[q][k]
  BY <1>1, UnlinkedElements
<1>3. /\ book' \in [Book!Queues -> Seq(Book!Order)]
      /\ book'[q] = Book!Unlinked(book[q], i)
      /\ \A r \in Book!Queues \ {q} : book'[r] = book[r]
  BY <1>1, <1>2
<1> QED
  BY <1>2, <1>3

(* A step of the book that keeps every resting order's identifier and      *)
(* descriptor, in its queue or out of it, and those of the order placed.   *)
LEMMA CarriedByQueues ==
  ASSUME BookTypes, BookTypes',
         ord' = NoOrder \/ (ord # NoOrder /\ SameHolder(ord', ord)),
         \A r \in Book!Queues : \A j \in 1 .. Len(book'[r]) :
           \/ \E k \in 1 .. Len(book[r]) : SameHolder(book'[r][j], book[r][k])
           \/ ord # NoOrder /\ book'[r][j] = ord
  PROVE  Carried
<1> SUFFICES ASSUME NEW o \in Orders' PROVE \E p \in Orders : SameHolder(o, p)
  BY DEF Carried
<1>1. CASE o \in {ord'} \ {NoOrder}
  BY <1>1 DEF Orders
<1>2. CASE o \in Book!AllResting'
  <2>1. book' \in [Book!Queues -> Seq(Book!Order)]
    BY DEF BookTypes
  <2>2. PICK r \in Book!Queues : \E j \in DOMAIN book'[r] : o = book'[r][j]
    BY <1>2 DEF Book!AllResting, Book!RestingIn, Book!Queues, Book!Instruments, Book!Sides
  <2>3. PICK j \in 1 .. Len(book'[r]) : o = book'[r][j]
    BY <2>1, <2>2, QueueElements
  <2>4. CASE \E k \in 1 .. Len(book[r]) : SameHolder(o, book[r][k])
    BY <2>3, <2>4, RestingOrders DEF Orders
  <2>5. CASE ord # NoOrder /\ o = ord
    BY <2>5 DEF Orders, SameHolder
  <2> QED
    BY <2>3, <2>4, <2>5
<1> QED
  BY <1>1, <1>2 DEF Orders

LEMMA OrderQueues ==
  ASSUME NEW o \in Book!Order
  PROVE  Book!OwnList(o) \in Book!Queues /\ Book!OppList(o) \in Book!Queues
  BY DEF Book!Order, Book!Sides, Book!Queues, Book!OwnList, Book!OppList, Book!OppositeSide

(* What addOrder's loop looks at. *)
LEMMA Walked ==
  ASSUME BookTypes, Book!Walking
  PROVE  /\ ord \in Book!Order /\ ord # NoOrder
         /\ Book!OppList(ord) \in Book!Queues
         /\ cur \in 1 .. Len(book[Book!OppList(ord)])
         /\ Book!Resting = book[Book!OppList(ord)][cur]
         /\ Book!Resting \in Book!Order
         /\ cur \in Nat /\ cur > 0
<1>1. ord \in Book!Order /\ ord # NoOrder /\ cur \in Nat /\ cur > 0
  BY DEF BookTypes, Book!Walking
<1>2. Book!OppList(ord) \in Book!Queues
  BY <1>1, OrderQueues
<1>3. /\ Len(book[Book!OppList(ord)]) \in Nat
      /\ \A i \in 1 .. Len(book[Book!OppList(ord)]) :
           book[Book!OppList(ord)][i] \in Book!Order
  BY <1>2, QueueElements DEF BookTypes
<1>4. cur \in 1 .. Len(book[Book!OppList(ord)])
  BY <1>1, <1>3 DEF Book!Walking
<1> QED
  BY <1>1, <1>2, <1>3, <1>4 DEF Book!Resting

LEMMA TradedOrder ==
  ASSUME BookTypes, Book!Walking,
         NEW qty, qty = Book!ExecutedQuantity(Book!Resting, ord), Book!Trade(qty)
  PROVE  /\ qty \in Nat /\ qty <= Book!Resting.quantity
         /\ ord' \in Book!Order
         /\ SameHolder(ord', ord)
<1>1. /\ ord \in Book!Order /\ Book!Resting \in Book!Order
      /\ ord.quantity \in Nat /\ Book!Resting.quantity \in Nat
  <2>1. ord \in Book!Order /\ Book!Resting \in Book!Order
    BY Walked
  <2> QED
    BY <2>1 DEF Book!Order
<1>2. qty \in Nat /\ qty <= ord.quantity /\ qty <= Book!Resting.quantity
  BY <1>1 DEF Book!ExecutedQuantity
<1>3. ord' = [ord EXCEPT !.quantity = ord.quantity - qty] /\ ord.quantity - qty \in Nat
  BY <1>1, <1>2 DEF Book!Trade
<1> QED
  BY <1>1, <1>2, <1>3 DEF Book!Order, SameHolder

LEMMA SkipCarries ==
  ASSUME BookTypes, Book!Skip
  PROVE  BookTypes' /\ Carried
<1>1. book' = book /\ ord' = ord /\ cur' = cur + 1
  BY DEF Book!Skip
<1> QED
  BY <1>1 DEF BookTypes, Carried, Orders, SameHolder, Book!AllResting, Book!RestingIn

LEMMA ExecuteAllCarries ==
  ASSUME BookTypes, Book!ExecuteAll
  PROVE  BookTypes' /\ Carried
<1> DEFINE q == Book!OppList(ord)
<1>1. /\ Book!Walking
      /\ book' = [book EXCEPT ![q] = Book!Unlinked(book[q], cur)]
      /\ cur' = cur
  BY DEF Book!ExecuteAll
<1>2. /\ q \in Book!Queues /\ cur \in 1 .. Len(book[q])
      /\ cur \in Nat /\ cur > 0 /\ ord # NoOrder
  BY <1>1, Walked
<1>3. ord' \in Book!Order /\ SameHolder(ord', ord)
  BY <1>1, TradedOrder DEF Book!ExecuteAll
<1> HIDE DEF q
<1>4. /\ book' \in [Book!Queues -> Seq(Book!Order)]
      /\ \A r \in Book!Queues : \A j \in 1 .. Len(book'[r]) :
           \E k \in 1 .. Len(book[r]) : book'[r][j] = book[r][k]
  BY <1>1, <1>2, UnlinkingCarries
<1>5. BookTypes'
  BY <1>1, <1>2, <1>3, <1>4 DEF BookTypes
<1>6. \A r \in Book!Queues : \A j \in 1 .. Len(book'[r]) :
        \E k \in 1 .. Len(book[r]) : SameHolder(book'[r][j], book[r][k])
  BY <1>4 DEF SameHolder
<1> QED
  BY <1>2, <1>3, <1>5, <1>6, CarriedByQueues

LEMMA ExecutePartCarries ==
  ASSUME BookTypes, Book!ExecutePart
  PROVE  BookTypes' /\ Carried
<1> DEFINE q == Book!OppList(ord)
           qty == Book!ExecutedQuantity(Book!Resting, ord)
           left == [Book!Resting EXCEPT !.quantity = Book!Resting.quantity - qty]
<1>1. /\ Book!Walking
      /\ book' = [book EXCEPT ![q] = [book[q] EXCEPT ![cur] = left]]
      /\ cur' = cur + 1
  BY DEF Book!ExecutePart, Book!Resting
<1>2. /\ q \in Book!Queues /\ cur \in 1 .. Len(book[q])
      /\ Book!Resting = book[q][cur] /\ Book!Resting \in Book!Order
      /\ cur \in Nat /\ cur > 0 /\ ord # NoOrder
  BY <1>1, Walked
<1>3. /\ qty \in Nat /\ qty <= Book!Resting.quantity
      /\ ord' \in Book!Order /\ SameHolder(ord', ord)
  BY <1>1, TradedOrder DEF Book!ExecutePart
<1>4. left \in Book!Order /\ SameHolder(left, Book!Resting)
  <2>1. Book!Resting.quantity \in Nat
    BY <1>2 DEF Book!Order
  <2>2. Book!Resting.quantity - qty \in Nat
    BY <2>1, <1>3
  <2> HIDE DEF qty
  <2> QED
    BY <1>2, <2>2 DEF Book!Order, SameHolder
<1> HIDE DEF q, qty, left
<1>5. book[q] \in Seq(Book!Order) /\ book \in [Book!Queues -> Seq(Book!Order)]
  BY <1>2 DEF BookTypes
<1>6. /\ [book[q] EXCEPT ![cur] = left] \in Seq(Book!Order)
      /\ Len([book[q] EXCEPT ![cur] = left]) = Len(book[q])
      /\ \A j \in 1 .. Len(book[q]) :
           [book[q] EXCEPT ![cur] = left][j] = IF j = cur THEN left ELSE book[q][j]
  BY <1>2, <1>4, <1>5, ExceptSeq
<1>7. /\ book' \in [Book!Queues -> Seq(Book!Order)]
      /\ \A r \in Book!Queues \ {q} : book'[r] = book[r]
      /\ book'[q] = [book[q] EXCEPT ![cur] = left]
  BY <1>1, <1>2, <1>5, <1>6
<1>8. BookTypes'
  BY <1>1, <1>2, <1>3, <1>7 DEF BookTypes
<1>9. \A r \in Book!Queues : \A j \in 1 .. Len(book'[r]) :
        \E k \in 1 .. Len(book[r]) : SameHolder(book'[r][j], book[r][k])
  BY <1>2, <1>4, <1>6, <1>7 DEF SameHolder
<1> QED
  BY <1>2, <1>3, <1>8, <1>9, CarriedByQueues

LEMMA ReturnCarries ==
  ASSUME BookTypes, Book!Return
  PROVE  BookTypes' /\ Carried
<1> DEFINE q == Book!OwnList(ord)
<1>1. /\ ord # NoOrder /\ ord' = NoOrder /\ cur' = 0
      /\ \/ book' = [book EXCEPT ![q] = Append(book[q], ord)]
         \/ book' = book
  BY DEF Book!Return, Book!Linked
<1>2. ord \in Book!Order /\ q \in Book!Queues
  BY <1>1, OrderQueues DEF BookTypes
<1> HIDE DEF q
<1>3. book[q] \in Seq(Book!Order) /\ book \in [Book!Queues -> Seq(Book!Order)]
  BY <1>2 DEF BookTypes
<1>4. /\ Append(book[q], ord) \in Seq(Book!Order)
      /\ Len(Append(book[q], ord)) = Len(book[q]) + 1
      /\ \A j \in 1 .. Len(book[q]) : Append(book[q], ord)[j] = book[q][j]
      /\ Append(book[q], ord)[Len(book[q]) + 1] = ord
      /\ Len(book[q]) \in Nat
  BY <1>2, <1>3, AppendProperties, LenProperties
<1>5. BookTypes'
  BY <1>1, <1>2, <1>3, <1>4 DEF BookTypes
<1>6. ASSUME NEW r \in Book!Queues, NEW j \in 1 .. Len(book'[r])
      PROVE  \/ \E k \in 1 .. Len(book[r]) : SameHolder(book'[r][j], book[r][k])
             \/ ord # NoOrder /\ book'[r][j] = ord
  <2>1. CASE book'[r] = book[r]
    BY <2>1 DEF SameHolder
  <2>2. CASE r = q /\ book'[q] = Append(book[q], ord)
    <3>1. j \in 1 .. Len(book[q]) \/ j = Len(book[q]) + 1
      BY <1>4, <2>2
    <3> QED
      BY <3>1, <1>1, <1>4, <2>2 DEF SameHolder
  <2> QED
    BY <2>1, <2>2, <1>1, <1>2, <1>3
<1> QED
  BY <1>1, <1>5, <1>6, CarriedByQueues

LEMMA CancelOrderCarries ==
  ASSUME BookTypes, NEW id, NEW fd, Book!CancelOrder(id, fd)
  PROVE  BookTypes' /\ Carried
<1>1. PICK q \in Book!Queues : \E i \in DOMAIN book[q] :
        book' = [book EXCEPT ![q] = Book!Unlinked(book[q], i)]
  BY DEF Book!CancelOrder
<1>2. PICK i \in 1 .. Len(book[q]) : book' = [book EXCEPT ![q] = Book!Unlinked(book[q], i)]
  BY <1>1, QueueElements DEF BookTypes
<1>3. /\ book' \in [Book!Queues -> Seq(Book!Order)]
      /\ \A r \in Book!Queues : \A j \in 1 .. Len(book'[r]) :
           \E k \in 1 .. Len(book[r]) : book'[r][j] = book[r][k]
  BY <1>2, UnlinkingCarries
<1>4. ord' = NoOrder /\ ord' = ord /\ cur' = cur
  BY DEF Book!CancelOrder
<1>5. BookTypes'
  BY <1>3, <1>4 DEF BookTypes
<1>6. \A r \in Book!Queues : \A j \in 1 .. Len(book'[r]) :
        \E k \in 1 .. Len(book[r]) : SameHolder(book'[r][j], book[r][k])
  BY <1>3 DEF SameHolder
<1> QED
  BY <1>4, <1>5, <1>6, CarriedByQueues

-----------------------------------------------------------------------------
(* A new order is its sender's, and leaves the others to their owners. *)
LEMMA PlaceOrderKeepsOwners ==
  ASSUME OwnerInv, NEW fd \in Fds, NEW side \in Book!Sides, NEW listing \in Listings,
         NEW amount \in Amounts, PlaceOrder(fd, side, listing, amount)
  PROVE  OwnerInv'
<1> DEFINE o == [id |-> next_order_id, quantity |-> ToInt(amount), price |-> ToInt(listing[2]),
                 client_fd |-> fd, type |-> side, instrument |-> listing[1]]
<1>1. /\ ord = NoOrder /\ ord' = o /\ cur' = 1 /\ book' = book
      /\ next_order_id < MaxOrders /\ next_order_id' = next_order_id + 1
      /\ owner' = [owner EXCEPT ![next_order_id] = conns[fd].client]
      /\ conns' = conns /\ arrived' = arrived
  BY AcceptedCall DEF PlaceOrder, Book!PlaceOrder
<1>2. next_order_id \in OrderIds /\ next_order_id \in Nat /\ next_order_id' \in 0 .. MaxOrders
  BY <1>1, BoundAssumption DEF OwnerInv, HistoryTypes, OrderIds, Book!OrderIds
<1>3. ToInt(amount) \in Nat /\ ToInt(listing[2]) \in Nat /\ listing[1] \in Book!Instruments
  <2>1. /\ ToInt(amount) \in Quantities
        /\ <<listing[1], ToInt(listing[2])>> \in Listings
    BY AcceptedCall
  <2>2. Quantities \subseteq Nat \ {0} /\ Listings \subseteq Book!Instruments \X (Nat \ {0})
    BY BookAssumption DEF Instruments
  <2> QED
    BY <2>1, <2>2
<1>4. o \in Book!Order /\ o.id = next_order_id /\ o.client_fd = fd
  BY <1>2, <1>3 DEF Book!Order, OrderIds
<1>5. fd \in Connected /\ conns[fd].client \in Clients
  <2>1. fd \in Connected
    BY DEF PlaceOrder, Listening
  <2> QED
    BY <2>1, ConnectedIsConnection DEF OwnerInv, Connection
<1> HIDE DEF o
<1>6. Orders' = Orders \cup {o}
  BY <1>1, <1>4, BookAssumption DEF Orders, Book!AllResting, Book!RestingIn
<1>7. \A p \in Orders : p.id < next_order_id /\ p \in Book!Order /\ p.id \in OrderIds
  <2>1. \A p \in Orders : p.id < next_order_id /\ p \in Book!Order
    BY RestingOrders DEF OwnerInv, Issued
  <2> QED
    BY <2>1 DEF Book!Order, OrderIds
<1>8. /\ owner' \in [OrderIds -> Clients \cup {NoConnection}]
      /\ owner'[next_order_id] = conns[fd].client
      /\ \A p \in Orders : owner'[p.id] = owner[p.id]
  BY <1>1, <1>2, <1>5, <1>7 DEF OwnerInv, HistoryTypes
<1>9. Issued'
  <2>1. \A p \in Orders : p.id < next_order_id'
    BY <1>1, <1>2, <1>7 DEF OrderIds, Book!OrderIds
  <2>2. o.id < next_order_id'
    BY <1>1, <1>2, <1>4
  <2> QED
    BY <1>6, <2>1, <2>2 DEF Issued
<1>10. OwnersAreConnected'
  <2>1. Connected' = Connected /\ conns' = conns
    BY <1>1 DEF Connected
  <2>2. \A p \in Orders : OwnerIsConnected(p)
    BY OwnersAreConnectedUnfolded DEF OwnerInv
  <2>3. \A p \in Orders : owner'[p.id] = owner[p.id]
    BY <1>8
  <2>4. \A p \in Orders : OwnerIsConnected(p)'
    BY <2>1, <2>2, <2>3 DEF OwnerIsConnected
  <2>5. \A p : p = o => OwnerIsConnected(p)'
    BY <1>4, <1>5, <1>8, <2>1 DEF OwnerIsConnected
  <2>6. \A p \in Orders' : OwnerIsConnected(p)'
    BY <1>6, <2>4, <2>5
  <2> QED
    BY <2>6 DEF OwnersAreConnected, Orders, OwnerIsConnected
<1>11. BookTypes'
  BY <1>1, <1>4 DEF OwnerInv, BookTypes
<1> QED
  BY <1>1, <1>2, <1>8, <1>9, <1>10, <1>11 DEF OwnerInv, SessionTypes, HistoryTypes

(* A table that changes in the slots of nobody with an order, or keeps who *)
(* is in them, keeps the owners.                                           *)
LEMMA TableChangeKeepsOwners ==
  ASSUME OwnerInv, SessionTypes', UNCHANGED <<bookVars, owner>>,
         \A fd \in Connected : fd \in Connected' /\ conns'[fd].client = conns[fd].client
  PROVE  OwnerInv'
<1>1. /\ book' = book /\ ord' = ord /\ cur' = cur /\ next_order_id' = next_order_id
      /\ owner' = owner
  BY DEF bookVars
<1>2. Orders' = Orders
  BY <1>1 DEF Orders, Book!AllResting, Book!RestingIn
<1>3. \A o \in Orders : OwnerIsConnected(o)'
  BY <1>1, OwnersAreConnectedUnfolded DEF OwnerInv, OwnerIsConnected
<1>4. OwnersAreConnected'
  BY <1>2, <1>3 DEF OwnersAreConnected, Orders, OwnerIsConnected
<1>5. BookTypes' /\ HistoryTypes' /\ Issued'
  BY <1>1, <1>2 DEF OwnerInv, BookTypes, HistoryTypes, Issued
<1> QED
  BY <1>4, <1>5 DEF OwnerInv

LEMMA ConnectKeepsOwners ==
  ASSUME OwnerInv, Connect
  PROVE  OwnerInv'
<1> DEFINE fd == Min(Fds \ Connected)
<1>1. fd \in Fds \ Connected
  BY LowestFreeIsFree DEF Connect
<1>2. arrived + 1 \in Clients /\ arrived' \in 0 .. MaxClients
  BY BoundAssumption DEF Connect, Clients, OwnerInv, SessionTypes
<1> HIDE DEF fd
<1>3. conns' = [conns EXCEPT ![fd] = Fresh(arrived + 1)]
  BY DEF Connect, fd
<1>4. /\ conns' \in [Fds -> Connection \cup {NoConnection}]
      /\ \A other \in Fds \ {fd} : conns'[other] = conns[other]
      /\ Connected' = Connected \cup {fd}
  BY <1>1, <1>2, <1>3, FreshIsConnection, UpdatedSlot DEF OwnerInv
<1>5. \A other \in Connected : other \in Fds \ {fd}
  BY <1>1 DEF Connected
<1> QED
  BY <1>2, <1>4, <1>5, TableChangeKeepsOwners DEF SessionTypes, Connect, history

(* A command that changes its own connection only, and not whose it is.    *)
LEMMA SessionChangeKeepsOwners ==
  ASSUME OwnerInv, NEW fd \in Connected, NEW conn \in Connection,
         conns' = [conns EXCEPT ![fd] = conn], conn.client = conns[fd].client,
         arrived' = arrived, UNCHANGED <<bookVars, owner>>
  PROVE  OwnerInv'
<1>1. fd \in Fds /\ SessionTypes
  BY DEF Connected, OwnerInv
<1>2. /\ conns' \in [Fds -> Connection \cup {NoConnection}]
      /\ conns'[fd] = conn
      /\ \A other \in Fds \ {fd} : conns'[other] = conns[other]
      /\ Connected' = Connected \cup {fd}
  BY <1>1, UpdatedSlot
<1>3. \A other \in Connected : other \in Fds
  BY DEF Connected
<1> QED
  BY <1>1, <1>2, <1>3, TableChangeKeepsOwners DEF SessionTypes

LEMMA CommandKeepsOwners ==
  ASSUME OwnerInv, NEW fd \in Fds,
         \/ \E name \in Names : LoginUser(fd, name)
         \/ \E instrument \in Instruments :
              SubscribeClient(fd, instrument) \/ UnsubscribeClient(fd, instrument)
         \/ QuitUser(fd)
  PROVE  OwnerInv'
<1>1. fd \in Connected /\ conns[fd] \in Connection
  BY ConnectedIsConnection
  DEF LoginUser, SubscribeClient, UnsubscribeClient, QuitUser, Listening, OwnerInv
<1>2. CASE \E name \in Names : LoginUser(fd, name)
  <2>1. PICK name \in Names : LoginUser(fd, name)
    BY <1>2
  <2>2. /\ LoggedIn(conns[fd], name) \in Connection
        /\ LoggedIn(conns[fd], name).client = conns[fd].client
    BY <1>1 DEF LoggedIn, Connection
  <2>3. /\ conns' = [conns EXCEPT ![fd] = LoggedIn(conns[fd], name)]
        /\ arrived' = arrived /\ UNCHANGED <<bookVars, owner>>
    BY <2>1 DEF LoginUser, history
  <2> QED
    BY <1>1, <2>2, <2>3, SessionChangeKeepsOwners
<1>3. CASE \E instrument \in Instruments : SubscribeClient(fd, instrument)
  <2>1. PICK instrument \in Instruments : SubscribeClient(fd, instrument)
    BY <1>3
  <2>2. /\ Subscribed(conns[fd], instrument) \in Connection
        /\ Subscribed(conns[fd], instrument).client = conns[fd].client
    BY <1>1 DEF Subscribed, Connection
  <2>3. /\ conns' = [conns EXCEPT ![fd] = Subscribed(conns[fd], instrument)]
        /\ arrived' = arrived /\ UNCHANGED <<bookVars, owner>>
    BY <2>1 DEF SubscribeClient, history
  <2> QED
    BY <1>1, <2>2, <2>3, SessionChangeKeepsOwners
<1>4. CASE \E instrument \in Instruments : UnsubscribeClient(fd, instrument)
  <2>1. PICK instrument \in Instruments : UnsubscribeClient(fd, instrument)
    BY <1>4
  <2> DEFINE conn == [conns[fd] EXCEPT !.subscribed = conns[fd].subscribed \ {instrument}]
  <2>2. conn \in Connection /\ conn.client = conns[fd].client
    BY <1>1 DEF Connection
  <2>3. /\ conns' = [conns EXCEPT ![fd] = conn]
        /\ arrived' = arrived /\ UNCHANGED <<bookVars, owner>>
    BY <2>1 DEF UnsubscribeClient, history
  <2> QED
    BY <1>1, <2>2, <2>3, SessionChangeKeepsOwners
<1>5. CASE QuitUser(fd)
  <2> DEFINE conn == [conns[fd] EXCEPT !.closing = TRUE]
  <2>1. conn \in Connection /\ conn.client = conns[fd].client
    BY <1>1 DEF Connection
  <2>2. /\ conns' = [conns EXCEPT ![fd] = conn]
        /\ arrived' = arrived /\ UNCHANGED <<bookVars, owner>>
    BY <1>5 DEF QuitUser, history
  <2> QED
    BY <1>1, <2>1, <2>2, SessionChangeKeepsOwners
<1> QED
  BY <1>2, <1>3, <1>4, <1>5

(* detachIn: the departed client's orders lose their descriptor, the others *)
(* stay as they are.                                                        *)
LEMMA DetachedElements ==
  ASSUME NEW queue \in Seq(Book!Order), NEW fd
  PROVE  /\ Book!Detached(queue, fd) \in Seq(Book!Order)
         /\ Len(Book!Detached(queue, fd)) = Len(queue)
         /\ \A i \in 1 .. Len(queue) :
              \/ /\ queue[i].client_fd # fd
                 /\ Book!Detached(queue, fd)[i] = queue[i]
              \/ /\ queue[i].client_fd = fd
                 /\ Book!Detached(queue, fd)[i].id = queue[i].id
                 /\ Book!Detached(queue, fd)[i].client_fd = NoFd
<1>1. Len(queue) \in Nat /\ DOMAIN queue = 1 .. Len(queue)
  BY LenProperties
<1>2. ASSUME NEW i \in 1 .. Len(queue)
      PROVE  /\ Book!Detached(queue, fd)[i] \in Book!Order
             /\ \/ /\ queue[i].client_fd # fd
                   /\ Book!Detached(queue, fd)[i] = queue[i]
                \/ /\ queue[i].client_fd = fd
                   /\ Book!Detached(queue, fd)[i].id = queue[i].id
                   /\ Book!Detached(queue, fd)[i].client_fd = NoFd
  <2>1. queue[i] \in Book!Order
    BY ElementOfSeq
  <2>2. /\ [queue[i] EXCEPT !.client_fd = NoFd] \in Book!Order
        /\ [queue[i] EXCEPT !.client_fd = NoFd].id = queue[i].id
        /\ [queue[i] EXCEPT !.client_fd = NoFd].client_fd = NoFd
    BY <2>1 DEF Book!Order
  <2>3. Book!Detached(queue, fd)[i] =
          IF queue[i].client_fd = fd THEN [queue[i] EXCEPT !.client_fd = NoFd] ELSE queue[i]
    BY <1>1 DEF Book!Detached
  <2> QED
    BY <2>1, <2>2, <2>3
<1>3. Book!Detached(queue, fd) \in [1 .. Len(queue) -> Book!Order]
  BY <1>1, <1>2 DEF Book!Detached
<1>4. Book!Detached(queue, fd) \in Seq(Book!Order) /\ Len(Book!Detached(queue, fd)) = Len(queue)
  <2>1. Book!Detached(queue, fd) \in Seq(Book!Order)
    BY <1>1, <1>3, SeqDef
  <2>2. DOMAIN Book!Detached(queue, fd) = 1 .. Len(queue)
    BY <1>3
  <2> QED
    BY <1>1, <2>1, <2>2, LenProperties
<1> QED
  BY <1>2, <1>4

LEMMA OrdersAfterRemoval ==
  ASSUME OwnerInv, NEW fd \in Fds, RemoveClient(fd), NEW o \in Orders'
  PROVE  \E p \in Orders :
           /\ o.id = p.id
           /\ \/ o.client_fd = NoFd /\ p.client_fd = fd
              \/ o.client_fd = p.client_fd /\ p.client_fd # fd
<1>1. /\ book' = [q \in Book!Queues |-> Book!Detached(book[q], fd)]
      /\ book \in [Book!Queues -> Seq(Book!Order)]
      /\ ord' = NoOrder
  BY DEF RemoveClient, OrdersReleased, Book!DetachClientOrders, OwnerInv, BookTypes
<1>2. \A q \in Book!Queues : book'[q] \in Seq(Book!Order) /\ Len(book'[q]) = Len(book[q])
  BY <1>1, DetachedElements
<1>3. o \in Book!AllResting'
  BY <1>1 DEF Orders
<1>4. PICK r \in Book!Queues : \E j \in DOMAIN book'[r] : o = book'[r][j]
  BY <1>3 DEF Book!AllResting, Book!RestingIn, Book!Queues, Book!Instruments, Book!Sides
<1>5. DOMAIN book'[r] = 1 .. Len(book'[r])
  BY <1>2, LenProperties
<1>6. PICK j \in 1 .. Len(book[r]) : o = book'[r][j]
  BY <1>2, <1>4, <1>5
<1>7. book'[r] = Book!Detached(book[r], fd) /\ book[r] \in Seq(Book!Order)
  BY <1>1
<1>8. book[r][j] \in Orders
  BY RestingOrders DEF OwnerInv, Orders
<1> QED
  BY <1>6, <1>7, <1>8, DetachedElements

LEMMA RemoveClientKeepsOwners ==
  ASSUME OwnerInv, NEW fd \in Fds, RemoveClient(fd)
  PROVE  OwnerInv'
<1>1. /\ book' = [q \in Book!Queues |-> Book!Detached(book[q], fd)]
      /\ ord = NoOrder /\ ord' = NoOrder /\ cur' = cur
      /\ next_order_id' = next_order_id /\ owner' = owner /\ arrived' = arrived
      /\ conns' = [conns EXCEPT ![fd] = NoConnection]
  BY DEF RemoveClient, OrdersReleased, Book!DetachClientOrders
<1>2. /\ conns' \in [Fds -> Connection \cup {NoConnection}]
      /\ Connected' = Connected \ {fd}
      /\ \A other \in Connected \ {fd} : conns'[other] = conns[other]
  BY <1>1 DEF OwnerInv, SessionTypes, Connected
<1>3. book \in [Book!Queues -> Seq(Book!Order)]
  BY DEF OwnerInv, BookTypes
<1>4. \A q \in Book!Queues : book'[q] \in Seq(Book!Order) /\ Len(book'[q]) = Len(book[q])
  BY <1>1, <1>3, DetachedElements
<1>5. BookTypes'
  BY <1>1, <1>4 DEF OwnerInv, BookTypes
<1>6. ASSUME NEW o \in Orders'
      PROVE  \E p \in Orders :
               /\ o.id = p.id
               /\ o.client_fd = NoFd \/ (o.client_fd = p.client_fd /\ p.client_fd # fd)
  BY OrdersAfterRemoval
<1>7. Issued'
  BY <1>1, <1>6 DEF OwnerInv, Issued
<1>8. \A p \in Orders : OwnerIsConnected(p)
  BY OwnersAreConnectedUnfolded DEF OwnerInv
<1>9. \A o \in Orders' : OwnerIsConnected(o)'
  BY <1>1, <1>2, <1>6, <1>8 DEF OwnerIsConnected
<1>10. OwnersAreConnected'
  BY <1>9 DEF OwnersAreConnected, Orders, OwnerIsConnected
<1> QED
  BY <1>1, <1>2, <1>5, <1>7, <1>10 DEF OwnerInv, SessionTypes, HistoryTypes

LEMMA BookStepKeepsOwners ==
  ASSUME OwnerInv,
         Walk \/ Report \/ \E fd \in Fds, id \in OrderIds : CancelUserOrder(fd, id)
  PROVE  OwnerInv'
<1>1. BookTypes
  BY DEF OwnerInv
<1>2. BookTypes' /\ Carried
  <2>1. CASE Walk
    BY <1>1, <2>1, SkipCarries, ExecuteAllCarries, ExecutePartCarries DEF Walk
  <2>2. CASE Report
    BY <1>1, <2>2, ReturnCarries DEF Report
  <2>3. CASE \E fd \in Fds, id \in OrderIds : CancelUserOrder(fd, id)
    BY <1>1, <2>3, CancelOrderCarries DEF CancelUserOrder
  <2> QED
    BY <2>1, <2>2, <2>3
<1>3. UNCHANGED <<conns, arrived, owner>>
  BY DEF Walk, Report, CancelUserOrder, connVars, history
<1>4. next_order_id' = next_order_id
  BY DEF Walk, Report, CancelUserOrder, Book!Skip, Book!ExecuteAll, Book!ExecutePart,
         Book!Trade, Book!Return, Book!CancelOrder
<1> QED
  BY <1>2, <1>3, <1>4, CarryingKeepsOwners

LEMMA NextKeepsOwnerInv == OwnerInv /\ [Next]_vars => OwnerInv'
<1> SUFFICES ASSUME OwnerInv, [Next]_vars PROVE OwnerInv'
  OBVIOUS
<1>1. CASE Connect
  BY <1>1, ConnectKeepsOwners
<1>2. CASE \E fd \in Fds :
             \/ \E name \in Names : LoginUser(fd, name)
             \/ \E instrument \in Instruments :
                  SubscribeClient(fd, instrument) \/ UnsubscribeClient(fd, instrument)
             \/ QuitUser(fd)
  BY <1>2, CommandKeepsOwners
<1>3. CASE \E fd \in Fds, side \in Book!Sides, listing \in Listings, amount \in Amounts :
             PlaceOrder(fd, side, listing, amount)
  BY <1>3, PlaceOrderKeepsOwners
<1>4. CASE Walk \/ Report \/ \E fd \in Fds, id \in OrderIds : CancelUserOrder(fd, id)
  BY <1>4, BookStepKeepsOwners
<1>5. CASE \E fd \in Fds : RemoveClient(fd)
  BY <1>5, RemoveClientKeepsOwners
<1>6. CASE (\E fd \in Fds : Depart(fd)) \/ UNCHANGED vars
  <2>1. UNCHANGED <<conns, arrived, owner, bookVars>>
    BY <1>6 DEF Depart, vars, connVars, history
  <2>2. SessionTypes' /\ Connected' = Connected
    BY <2>1 DEF OwnerInv, SessionTypes, Connected
  <2>3. \A fd \in Connected : fd \in Connected' /\ conns'[fd].client = conns[fd].client
    BY <2>1, <2>2
  <2> QED
    BY <2>1, <2>2, <2>3, TableChangeKeepsOwners
<1> QED
  BY <1>1, <1>2, <1>3, <1>4, <1>5, <1>6 DEF Next

LEMMA InitOwnerInv == Init => OwnerInv
<1> SUFFICES ASSUME Init PROVE OwnerInv
  OBVIOUS
<1>1. /\ book = [q \in Book!Queues |-> <<>>] /\ ord = NoOrder /\ cur = 0
      /\ next_order_id = 0
      /\ owner = [id \in OrderIds |-> NoConnection]
      /\ conns = [fd \in Fds |-> NoConnection] /\ arrived = 0
  BY DEF Init, Book!Init
<1>2. SessionTypes /\ HistoryTypes
  BY <1>1, BoundAssumption DEF SessionTypes, HistoryTypes
<1>3. <<>> \in Seq(Book!Order)
  BY EmptySeq
<1>4. BookTypes
  BY <1>1, <1>3 DEF BookTypes
<1>5. \A o : o \notin Orders
  BY <1>1 DEF Orders, Book!AllResting, Book!RestingIn
<1> QED
  BY <1>2, <1>4, <1>5 DEF OwnerInv, Issued, OwnersAreConnected, Orders

(* An order that names a descriptor belongs to the client that holds it,    *)
(* through every removal and every reuse of a descriptor, for every number  *)
(* of clients, descriptors and orders (io.c:94, orderbook.c's detachIn).    *)
THEOREM OwnersAreConnectedHolds == Spec => []OwnersAreConnected
<1>1. OwnerInv => OwnersAreConnected
  BY DEF OwnerInv
<1> QED
  BY <1>1, InitOwnerInv, NextKeepsOwnerInv, PTL DEF Spec
=============================================================================
