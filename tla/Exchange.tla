------------------------------- MODULE Exchange -------------------------------
(***************************************************************************)
(* What the commands of a connected client do: processLine of includes/io.c *)
(* and the handlers of includes/commands.c, over the connection table and  *)
(* the order book.  One action is one line that is accepted; a line that   *)
(* is refused is answered with ERROR and changes nothing.  A BUY or SELL   *)
(* is several steps: the order is accepted, addOrder walks the book, and   *)
(* its fills are reported, with nothing else between them, as the server   *)
(* has one thread.                                                         *)
(*                                                                         *)
(* A connection is known to the code by its descriptor only, and a free    *)
(* descriptor is given to the next client.  The history variables know the *)
(* clients apart.  EventLoop has how connections come and go, LineFraming  *)
(* how lines are cut.                                                      *)
(***************************************************************************)
EXTENDS Integers, Sequences, FiniteSets, FiniteSetsExt

CONSTANTS
  MaxClients,    \* bound: how many clients ever connect
  NoConnection,  \* a NULL slot of the connection table
  Names,         \* usernames
  NoName,        \* the connection has not logged in
  Amounts,       \* the quantities written in BUY and SELL lines
  IntWidth,      \* bits of the C int that a number is converted to
  Fds, NoFd, NoOrder, Listings, Quantities, MaxOrders, FILLS_INITIAL_CAPACITY, AllocMayFail

VARIABLES
  conns,       \* descriptor -> ClientConnection
  leaving,     \* the descriptor handleClientEvent is about to remove, or NoFd
  done,        \* placeOrder's flag: its own client cannot be written to
  arrived,     \* how many clients have connected; the last one's number
  owner,       \* history: whose order it is
  asked,       \* history: the quantity its line asked for
  unreported,  \* history: quantity executed for a connected client and not yet sent
  silenced,    \* history: clients that missed a notification and are still connected
  book, ord, cur, fills, cap, next_order_id, placed, executed, withdrawn

Book == INSTANCE OrderBook

connVars == <<conns, leaving, done, arrived>>
history == <<owner, asked, unreported, silenced>>
bookVars == <<book, ord, cur, fills, cap, next_order_id, placed, executed, withdrawn>>
vars == <<connVars, history, bookVars>>

Instruments == Book!Instruments
OrderIds == Book!OrderIds

(* Clients are numbered as they connect; only the history knows the numbers. *)
Clients == 1 .. MaxClients

(* struct ClientConnection without its buffers; logged_in is having a name. *)
Connection ==
  [client : Clients, type : {"none", "trader", "market"}, username : Names \cup {NoName},
   subscribed : SUBSET Instruments, closing : BOOLEAN]

ASSUME NamingAssumption == NoName \notin Names /\ NoConnection \notin Connection
ASSUME FdAssumption == Fds \subseteq Nat
ASSUME WidthAssumption == IntWidth \in Nat \ {0} /\ Amounts \subseteq Int
ASSUME BoundAssumption == MaxClients \in Nat /\ MaxOrders \in Nat
ASSUME CapacityAssumption == FILLS_INITIAL_CAPACITY \in Nat \ {0} /\ AllocMayFail \in BOOLEAN

-----------------------------------------------------------------------------
(* Slips: what each definition below would be after a plausible mistake.   *)
(* No action uses them; they exist to be put in a definition's place, so   *)
(* that a property can be seen to notice the mistake.                      *)

SlipRoleKept(conn, instrument) == [conn EXCEPT !.subscribed = @ \cup {instrument}]
SlipNeverInUse(name) == FALSE
SlipAnyMarketClient(instrument) ==
  {fd \in Fds : conns[fd] # NoConnection /\ conns[fd].type = "market"}
SlipCounterpartyOnly(i) == {<<i, "BOUGHT", fills[i].buy_client_fd>>}
SlipOrdersKept(fd) == UNCHANGED bookVars

-----------------------------------------------------------------------------
(* Helpers *)

(* sscanf's %d: a number that does not fit is stored modulo the width. *)
ToInt(n) == ((n + 2^(IntWidth - 1)) % 2^IntWidth) - 2^(IntWidth - 1)

(* The book is given what it expects: what an accepted line says is a       *)
(* listing and a quantity of the book's.                                    *)
ASSUME BookAssumption ==
  /\ NoFd \notin Fds
  /\ NoOrder \notin Book!Order
  /\ \A amount \in Amounts : ToInt(amount) > 0 => ToInt(amount) \in Quantities
  /\ \A listing \in Listings :
       ToInt(listing[2]) > 0 => <<listing[1], ToInt(listing[2])>> \in Listings
  /\ Listings \subseteq Instruments \X (Nat \ {0})
  /\ Quantities \subseteq Nat \ {0}

(* calloc in registerClient: no role, no name. *)
Fresh(c) ==
  [client |-> c, type |-> "none", username |-> NoName, subscribed |-> {}, closing |-> FALSE]

Connected == {fd \in Fds : conns[fd] # NoConnection}

(* The thread waits for a line, and this connection's input is still read. *)
Idle == ord = NoOrder /\ leaving = NoFd
Listening(fd) == Idle /\ fd \in Connected /\ ~conns[fd].closing

NameInUse(name) == \E fd \in Connected : conns[fd].username = name

LoggedIn(conn, name) == [conn EXCEPT !.type = "trader", !.username = name]
Subscribed(conn, instrument) ==
  [conn EXCEPT !.type = "market", !.subscribed = @ \cup {instrument}]

(* The reply is sent, or it cannot be and the connection is given up. *)
Replied(fd) == leaving' \in {NoFd, fd}

Subscribers(instrument) ==
  {fd \in Connected : conns[fd].type = "market" /\ instrument \in conns[fd].subscribed}

(* Whom placeOrder's loop sends what for one fill; notifyClient skips the   *)
(* owners that are gone.                                                    *)
Addressed(i) ==
  {<<i, "BOUGHT", fills[i].buy_client_fd>>, <<i, "SOLD", fills[i].sell_client_fd>>}
  \cup {<<i, "TRADE", fd>> : fd \in Subscribers(fills[i].instrument)}
Notifications == {n \in UNION {Addressed(i) : i \in DOMAIN fills} : n[3] \in Connected}

QuantityFor(c) ==
  LET mine == {n \in Notifications : conns[n[3]].client = c}
  IN  SumFunction([n \in mine |-> fills[n[1]].quantity])

(* What the step of addOrder just taken owes a client, by who it is. *)
Present(c) == \E fd \in Connected : conns[fd].client = c
Traded(id) == executed'[id] - executed[id]
Owed(c) ==
  (IF Present(c)
   THEN SumFunction([id \in {i \in OrderIds : owner[i] = c} |-> Traded(id)]) ELSE 0)
  + (IF \E fd \in Connected : /\ conns[fd].client = c
                            /\ ord.instrument \in conns[fd].subscribed
     THEN Traded(ord.id) ELSE 0)

-----------------------------------------------------------------------------
Init ==
  /\ Book!Init
  /\ conns = [fd \in Fds |-> NoConnection]
  /\ leaving = NoFd
  /\ done = FALSE
  /\ arrived = 0
  /\ owner = [id \in OrderIds |-> NoConnection]
  /\ asked = [id \in OrderIds |-> 0]
  /\ unreported = [c \in Clients |-> 0]
  /\ silenced = {}

(* registerClient, in the slot of the lowest free descriptor. *)
Connect ==
  /\ Idle
  /\ arrived < MaxClients
  /\ Connected # Fds
  /\ conns' = [conns EXCEPT ![Min(Fds \ Connected)] = Fresh(arrived + 1)]
  /\ arrived' = arrived + 1
  /\ UNCHANGED <<leaving, done, history, bookVars>>

LoginUser(fd, name) ==
  /\ Listening(fd)
  /\ conns[fd].type # "market"
  /\ conns[fd].username = NoName
  /\ ~NameInUse(name)
  /\ conns' = [conns EXCEPT ![fd] = LoggedIn(@, name)]
  /\ Replied(fd)
  /\ UNCHANGED <<done, arrived, history, bookVars>>

SubscribeClient(fd, instrument) ==
  /\ Listening(fd)
  /\ conns[fd].type # "trader"
  /\ instrument \notin conns[fd].subscribed
  /\ conns' = [conns EXCEPT ![fd] = Subscribed(@, instrument)]
  /\ Replied(fd)
  /\ UNCHANGED <<done, arrived, history, bookVars>>

UnsubscribeClient(fd, instrument) ==
  /\ Listening(fd)
  /\ conns[fd].type # "trader"
  /\ instrument \in conns[fd].subscribed
  /\ conns' = [conns EXCEPT ![fd].subscribed = @ \ {instrument}]
  /\ Replied(fd)
  /\ UNCHANGED <<done, arrived, history, bookVars>>

(* The connection goes at once unless some output is still waiting; then   *)
(* it stays in the table, deaf, until that has been flushed.               *)
QuitUser(fd) ==
  /\ Listening(fd)
  /\ conns' = [conns EXCEPT ![fd].closing = TRUE]
  /\ Replied(fd)
  /\ UNCHANGED <<done, arrived, history, bookVars>>

(* BUY and SELL up to the call of addOrder.  A failure to send             *)
(* ORDER_ACCEPTED is remembered; the order is placed all the same.         *)
PlaceOrder(fd, side, listing, amount) ==
  /\ Listening(fd)
  /\ conns[fd].username # NoName
  /\ ToInt(amount) > 0 /\ ToInt(listing[2]) > 0
  /\ Book!PlaceOrder(fd, side, listing[1], ToInt(amount), ToInt(listing[2]))
  /\ owner' = [owner EXCEPT ![next_order_id] = conns[fd].client]
  /\ asked' = [asked EXCEPT ![next_order_id] = amount]
  /\ done' \in BOOLEAN
  /\ UNCHANGED <<conns, leaving, arrived, unreported, silenced>>

(* addOrder's loop. *)
Walk ==
  /\ Book!Skip \/ Book!ExecuteAll \/ Book!ExecutePart
  /\ unreported' = [c \in Clients |-> unreported[c] + Owed(c)]
  /\ UNCHANGED <<connVars, owner, asked, silenced>>

(* addOrder returns and placeOrder reports its fills.  A notification is    *)
(* lost when it cannot be written and does not fit the output buffer; only  *)
(* the placing client's own losses end a connection.                        *)
Report ==
  /\ Book!Return
  /\ unreported' = [c \in Clients |-> unreported[c] - QuantityFor(c)]
  /\ \E failed \in SUBSET Notifications :
       /\ silenced' = silenced \cup {conns[n[3]].client : n \in failed}
       /\ leaving' = IF done \/ \E n \in failed : n[2] # "TRADE" /\ n[3] = ord.client_fd
                     THEN ord.client_fd ELSE NoFd
  /\ done' = FALSE
  /\ UNCHANGED <<conns, arrived, owner, asked>>

CancelUserOrder(fd, id) ==
  /\ Listening(fd)
  /\ conns[fd].username # NoName
  /\ Book!CancelOrder(id, fd)
  /\ Replied(fd)
  /\ UNCHANGED <<conns, done, arrived, history>>

(* The client is gone, the ERROR for a refused line cannot be sent, or the  *)
(* last output of a closing connection is written.                          *)
Depart(fd) ==
  /\ Idle
  /\ fd \in Connected
  /\ leaving' = fd
  /\ UNCHANGED <<conns, done, arrived, history, bookVars>>

OrdersReleased(fd) == Book!DetachClientOrders(fd)

RemoveClient(fd) ==
  /\ leaving = fd
  /\ OrdersReleased(fd)
  /\ conns' = [conns EXCEPT ![fd] = NoConnection]
  /\ leaving' = NoFd
  /\ silenced' = silenced \ {conns[fd].client}
  /\ unreported' = [unreported EXCEPT ![conns[fd].client] = 0]
  /\ UNCHANGED <<done, arrived, owner, asked>>

Next ==
  \/ Connect
  \/ \E fd \in Fds :
       \/ \E name \in Names : LoginUser(fd, name)
       \/ \E instrument \in Instruments :
            SubscribeClient(fd, instrument) \/ UnsubscribeClient(fd, instrument)
       \/ QuitUser(fd)
       \/ \E side \in Book!Sides, listing \in Listings, amount \in Amounts :
            PlaceOrder(fd, side, listing, amount)
       \/ \E id \in OrderIds : CancelUserOrder(fd, id)
       \/ Depart(fd)
       \/ RemoveClient(fd)
  \/ Walk
  \/ Report

Spec == Init /\ [][Next]_vars

-----------------------------------------------------------------------------
(* Properties *)

(* Every variable has its type; that `unreported` is never negative means   *)
(* that nobody is sent an execution that is not its own or not its market's. *)
TypeOK ==
  /\ conns \in [Fds -> Connection \cup {NoConnection}]
  /\ leaving \in Fds \cup {NoFd}
  /\ done \in BOOLEAN
  /\ arrived \in 0 .. MaxClients
  /\ owner \in [OrderIds -> Clients \cup {NoConnection}]
  /\ asked \in [OrderIds -> Int]
  /\ unreported \in [Clients -> Nat]
  /\ silenced \subseteq Clients

(* A username names one connection, whichever slots the others are in and   *)
(* however often a name and a descriptor are taken over (loginUser).        *)
NamesUnique ==
  \A fd, other \in Connected :
    conns[fd].username = conns[other].username /\ conns[fd].username # NoName => fd = other

(* Only a trader has a name and only a market-data client a subscription,   *)
(* so no connection gets both kinds of message (Assignment_2.md, 2.8).      *)
RolesExclusive ==
  \A fd \in Connected :
    /\ conns[fd].username # NoName => conns[fd].type = "trader"
    /\ conns[fd].subscribed # {} => conns[fd].type = "market"

(* An order that names a descriptor belongs to the client that has it now:  *)
(* nobody inherits a departed client's orders, to cancel them or to be told *)
(* of their executions, by being given its descriptor (io.c:94).            *)
OwnersAreConnected ==
  \A o \in Book!AllResting \cup ({ord} \ {NoOrder}) :
    o.client_fd # NoFd =>
      /\ o.client_fd \in Connected
      /\ conns[o.client_fd].client = owner[o.id]

(* Between two commands every connected client has been sent exactly what   *)
(* was executed: a trader its own orders' share, a subscriber the trades of *)
(* its instruments, unless the sending itself failed.                       *)
AllReported ==
  ord = NoOrder => \A c \in Clients : unreported[c] = 0

(* Descriptors are invisible: what the clients see is a marketplace where    *)
(* everybody has a session and orders of their own, whoever had their       *)
(* descriptor before.                                                       *)
HolderOf(fd) == IF fd \in Connected THEN conns[fd].client ELSE NoFd
ByOwner(o) == [o EXCEPT !.client_fd = HolderOf(@)]
SessionOf(conn) ==
  [type |-> conn.type, username |-> conn.username,
   subscribed |-> conn.subscribed, closing |-> conn.closing]
SlotsOf(c) == {fd \in Connected : conns[fd].client = c}

(* What is nobody's number and no order stays so when orders name owners.   *)
OwnedOrder ==
  [id : OrderIds, quantity : Nat, price : Nat, client_fd : Clients \cup {NoFd},
   type : Book!Sides, instrument : Instruments]
ASSUME OwnerAssumption == NoFd \notin Clients /\ NoOrder \notin OwnedOrder
Places ==
  [c \in Clients |-> IF c > arrived THEN "away" ELSE IF Present(c) THEN "here" ELSE "left"]
Sessions ==
  [c \in Clients |-> LET slots == SlotsOf(c) IN
     IF slots = {} THEN SessionOf(Fresh(c)) ELSE SessionOf(conns[CHOOSE fd \in slots : TRUE])]

Market ==
  INSTANCE Marketplace WITH
    Nobody <- NoFd,
    place <- Places,
    session <- Sessions,
    open <- {ByOwner(o) : o \in Book!AllResting},
    incoming <- IF ord = NoOrder THEN NoOrder ELSE ByOwner(ord),
    issued <- next_order_id

ImplementsMarketplace == Market!Spec

(* A subscriber is sent every trade of its instrument while it is connected *)
(* (Assignment_2.md:207).  A notification that does not fit the output      *)
(* buffer is dropped and the connection goes on.                            *)
NobodyIsSilenced == \A fd \in Connected : conns[fd].client \notin silenced \/ fd = leaving

(* A quantity outside the range of an int is refused (Assignment_2.md:122): *)
(* what is accepted is what was asked for.                                  *)
AcceptedAsAsked == \A id \in OrderIds : placed[id] = asked[id]
=============================================================================
