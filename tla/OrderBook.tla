------------------------------ MODULE OrderBook ------------------------------
(***************************************************************************)
(* The limit order book of includes/orderbook.c: four arrival-ordered      *)
(* queues, one per instrument and side, and addOrder's walk over the       *)
(* opposite queue at the grain of one loop iteration.  The two doubly      *)
(* linked list operations are those of a sequence: append at the tail,     *)
(* unlink at a position.  A cursor `cur` into the opposite queue stands    *)
(* for the C pointer of that name.                                         *)
(*                                                                         *)
(* The caller is commands.c: placeOrder hands in an order with the next    *)
(* identifier, reads the fill array when addOrder returns, and frees it.   *)
(* The server is single threaded, so no other book operation starts while  *)
(* an order is being walked.                                               *)
(***************************************************************************)
EXTENDS Integers, Sequences, SequencesExt

CONSTANTS
  Fds,                     \* descriptors a client may hold
  NoFd,                    \* the -1 that marks an order ownerless
  NoOrder,                 \* no addOrder call is running
  Listings,                \* the <<instrument, price>> pairs orders arrive for
  Quantities,              \* the quantities orders arrive with
  MaxOrders,               \* bound: number of orders ever accepted
  FILLS_INITIAL_CAPACITY,  \* orderbook.c:5 (16 in the code)
  AllocMayFail             \* whether realloc may return NULL

Instruments == {"JNST", "IMCT"}
Sides == {"BUY", "SELL"}
Queues == Instruments \X Sides
OrderIds == 0 .. MaxOrders - 1

(* struct Order, without the list links the queues stand for. *)
Order == [id : OrderIds, quantity : Nat, price : Nat,
          client_fd : Fds \cup {NoFd}, type : Sides, instrument : Instruments]

(* struct Fill. *)
Fill == [price : Nat, quantity : Nat, instrument : Instruments,
         buy_client_fd : Fds \cup {NoFd}, sell_client_fd : Fds \cup {NoFd}]

ASSUME FdAssumption == NoFd \notin Fds
ASSUME OrderAssumption == NoOrder \notin Order
ASSUME ListingAssumption == Listings \subseteq Instruments \X (Nat \ {0})
ASSUME QuantityAssumption == Quantities \subseteq Nat \ {0}
ASSUME BoundAssumption == MaxOrders \in Nat
ASSUME CapacityAssumption == FILLS_INITIAL_CAPACITY \in Nat \ {0}
ASSUME AllocAssumption == AllocMayFail \in BOOLEAN

VARIABLES
  book,           \* queue -> resting orders in list order
  ord,            \* the order addOrder is placing, or NoOrder
  cur,            \* position in the opposite queue addOrder looks at next
  fills,          \* the fill array of the running call, up to count
  cap,            \* its allocated length
  next_order_id,  \* commands.c:98
  placed,         \* history: quantity each order arrived with
  executed,       \* history: quantity each order has executed
  withdrawn       \* history: quantity each order had left when cancelled

bookVars == <<book, ord, cur, fills, cap, next_order_id>>
history == <<placed, executed, withdrawn>>
vars == <<bookVars, history>>

-----------------------------------------------------------------------------
(* Slips: what each helper below would compute after a plausible mistake.  *)
(* No action uses them; they exist to be put in a helper's place, so that  *)
(* a property can be seen to notice the mistake.                           *)

SlipPushedAtHead(queue, o) == <<o>> \o queue
SlipUnlinkedHead(queue, i) == Tail(queue)
SlipBuyerOutbids(resting, o) ==
  IF o.type = "BUY" THEN o.price > resting.price ELSE resting.price > o.price
SlipNoRoomMade(count, c) == {IF c = 0 THEN FILLS_INITIAL_CAPACITY ELSE c}
SlipCancelsAnyones(o, id, fd) == o.id = id

-----------------------------------------------------------------------------
(* Helpers *)

(* ownList and oppList: the queue an order joins and the one it walks. *)
OwnList(o) == <<o.instrument, o.type>>
OppositeSide(side) == IF side = "BUY" THEN "SELL" ELSE "BUY"
OppList(o) == <<o.instrument, OppositeSide(o.type)>>

(* append links at the tail, removeNode unlinks. *)
Linked(queue, o) == Append(queue, o)
Unlinked(queue, i) == RemoveAt(queue, i)

Crosses(resting, o) == resting.price = o.price

ExecutedQuantity(resting, o) ==
  IF o.quantity < resting.quantity THEN o.quantity ELSE resting.quantity

(* The capacity after the array has been asked to hold one more fill. *)
CapacityAfterRealloc(count, c) ==
  IF count < c THEN {c}
  ELSE {IF c = 0 THEN FILLS_INITIAL_CAPACITY ELSE c * 2}
       \cup (IF AllocMayFail THEN {c} ELSE {})

FillOf(resting, o, qty) ==
  [price |-> resting.price, quantity |-> qty, instrument |-> o.instrument,
   buy_client_fd  |-> IF o.type = "BUY" THEN o.client_fd ELSE resting.client_fd,
   sell_client_fd |-> IF o.type = "BUY" THEN resting.client_fd ELSE o.client_fd]

(* A fill is stored only where there is room for it. *)
Recorded(report, c, fill) == IF Len(report) < c THEN Append(report, fill) ELSE report

(* detachIn over one queue. *)
Detached(queue, fd) ==
  [i \in DOMAIN queue |->
     IF queue[i].client_fd = fd THEN [queue[i] EXCEPT !.client_fd = NoFd] ELSE queue[i]]

(* The order in which cancelOrder searches the four lists. *)
SearchOrder == << <<"JNST", "BUY">>, <<"JNST", "SELL">>, <<"IMCT", "BUY">>, <<"IMCT", "SELL">> >>

(* cancelIn's test: only the owner's descriptor may cancel. *)
MayCancel(o, id, fd) == o.id = id /\ o.client_fd = fd

(* The first list of the search that holds the order, and its first position. *)
FirstFound(q, i, id, fd) ==
  /\ i \in DOMAIN book[q]
  /\ MayCancel(book[q][i], id, fd)
  /\ \A j \in 1 .. i - 1 : ~MayCancel(book[q][j], id, fd)
  /\ \E k \in DOMAIN SearchOrder :
       /\ SearchOrder[k] = q
       /\ \A l \in 1 .. k - 1 : \A j \in DOMAIN book[SearchOrder[l]] :
            ~MayCancel(book[SearchOrder[l]][j], id, fd)

-----------------------------------------------------------------------------
(* Actions *)

Init ==
  /\ book = [q \in Queues |-> <<>>]
  /\ ord = NoOrder
  /\ cur = 0
  /\ fills = <<>>
  /\ cap = 0
  /\ next_order_id = 0
  /\ placed = [id \in OrderIds |-> 0]
  /\ executed = [id \in OrderIds |-> 0]
  /\ withdrawn = [id \in OrderIds |-> 0]

(* placeOrder accepts a well-formed order and enters addOrder. *)
PlaceOrder(fd, side, instrument, quantity, price) ==
  /\ ord = NoOrder
  /\ next_order_id < MaxOrders
  /\ ord' = [id |-> next_order_id, quantity |-> quantity, price |-> price,
             client_fd |-> fd, type |-> side, instrument |-> instrument]
  /\ next_order_id' = next_order_id + 1
  /\ placed' = [placed EXCEPT ![next_order_id] = quantity]
  /\ cur' = 1
  /\ fills' = <<>>
  /\ cap' = 0
  /\ UNCHANGED <<book, executed, withdrawn>>

(* addOrder's loop condition, and the resting order it looks at. *)
Walking == ord # NoOrder /\ ord.quantity > 0 /\ cur <= Len(book[OppList(ord)])
Resting == book[OppList(ord)][cur]

(* The resting order has another price. *)
Skip ==
  /\ Walking
  /\ ~Crosses(Resting, ord)
  /\ cur' = cur + 1
  /\ UNCHANGED <<book, ord, fills, cap, next_order_id, history>>

(* The two orders execute against each other and the fill is recorded. *)
Trade(qty) ==
  /\ Crosses(Resting, ord)
  /\ ord' = [ord EXCEPT !.quantity = @ - qty]
  /\ cap' \in CapacityAfterRealloc(Len(fills), cap)
  /\ fills' = Recorded(fills, cap', FillOf(Resting, ord, qty))
  /\ executed' = [executed EXCEPT ![ord.id] = @ + qty, ![Resting.id] = @ + qty]
  /\ UNCHANGED <<next_order_id, placed, withdrawn>>

(* The resting order is used up and unlinked: its successor moves under the cursor. *)
ExecuteAll ==
  /\ Walking
  /\ LET qty == ExecutedQuantity(Resting, ord)
     IN  /\ qty = Resting.quantity
         /\ Trade(qty)
  /\ book' = [book EXCEPT ![OppList(ord)] = Unlinked(@, cur)]
  /\ UNCHANGED cur

(* The resting order keeps a remainder and its place in the queue. *)
ExecutePart ==
  /\ Walking
  /\ LET qty == ExecutedQuantity(Resting, ord)
     IN  /\ qty < Resting.quantity
         /\ Trade(qty)
         /\ book' = [book EXCEPT ![OppList(ord)][cur].quantity = @ - qty]
  /\ cur' = cur + 1

(* addOrder links or frees the order and returns; placeOrder reads and frees the fills. *)
Return ==
  /\ ord # NoOrder
  /\ ~Walking
  /\ book' = IF ord.quantity > 0
             THEN [book EXCEPT ![OwnList(ord)] = Linked(@, ord)]
             ELSE book
  /\ ord' = NoOrder
  /\ cur' = 0
  /\ fills' = <<>>
  /\ cap' = 0
  /\ UNCHANGED <<next_order_id, history>>

(* cancelOrder by a client; a search that finds nothing changes nothing. *)
CancelOrder(id, fd) ==
  /\ ord = NoOrder
  /\ \E q \in Queues : \E i \in DOMAIN book[q] :
       /\ FirstFound(q, i, id, fd)
       /\ book' = [book EXCEPT ![q] = Unlinked(@, i)]
       /\ withdrawn' = [withdrawn EXCEPT ![id] = @ + book[q][i].quantity]
  /\ UNCHANGED <<ord, cur, fills, cap, next_order_id, placed, executed>>

(* removeClient marks the departed client's orders ownerless. *)
DetachClientOrders(fd) ==
  /\ ord = NoOrder
  /\ book' = [q \in Queues |-> Detached(book[q], fd)]
  /\ UNCHANGED <<ord, cur, fills, cap, next_order_id, history>>

Next ==
  \/ \E fd \in Fds, side \in Sides, listing \in Listings, quantity \in Quantities :
       PlaceOrder(fd, side, listing[1], quantity, listing[2])
  \/ Skip
  \/ ExecuteAll
  \/ ExecutePart
  \/ Return
  \/ \E id \in OrderIds, fd \in Fds : CancelOrder(id, fd)
  \/ \E fd \in Fds : DetachClientOrders(fd)

Spec == Init /\ [][Next]_vars

-----------------------------------------------------------------------------
(* Properties *)

RestingIn(q) == {book[q][i] : i \in DOMAIN book[q]}
AllResting == UNION {RestingIn(q) : q \in Queues}
LiveIds == {o.id : o \in AllResting} \cup (IF ord = NoOrder THEN {} ELSE {ord.id})

(* Every variable has its type, and every order is in the queue of its      *)
(* instrument and side (the list heads of struct LimitOrderBook).           *)
TypeOK ==
  /\ book \in [Queues -> Seq(Order)]
  /\ ord \in Order \cup {NoOrder}
  /\ cur \in Nat
  /\ fills \in Seq(Fill)
  /\ cap \in Nat
  /\ next_order_id \in 0 .. MaxOrders
  /\ placed \in [OrderIds -> Nat]
  /\ executed \in [OrderIds -> Nat]
  /\ withdrawn \in [OrderIds -> Nat]

(* A resting order is in the queue its instrument and side select.          *)
Filed == \A q \in Queues : \A i \in DOMAIN book[q] : OwnList(book[q][i]) = q

(* No exhausted order stays linked: removeNode unlinks it in the same step. *)
Open == \A q \in Queues : \A i \in DOMAIN book[q] : book[q][i].quantity > 0

(* Each queue is in arrival order, whatever was executed, cancelled or      *)
(* detached in its middle: time priority is list order because of this.     *)
ArrivalOrder ==
  \A q \in Queues : \A i, j \in DOMAIN book[q] : i < j => book[q][i].id < book[q][j].id

(* Identifiers are handed out before an order rests, and the order being    *)
(* placed is younger than everything that rests.                            *)
Issued ==
  /\ \A q \in Queues : \A i \in DOMAIN book[q] : book[q][i].id < next_order_id
  /\ ord # NoOrder =>
       /\ ord.id < next_order_id
       /\ \A q \in Queues : \A i \in DOMAIN book[q] : book[q][i].id < ord.id

(* An order rests in one place only.                                        *)
OneHome ==
  \A q, r \in Queues : \A i \in DOMAIN book[q], j \in DOMAIN book[r] :
    book[q][i].id = book[r][j].id => q = r

(* What the cursor of addOrder has passed does not cross the incoming       *)
(* order, so ending the walk means nothing is left to execute against.      *)
PassedDoNotCross ==
  ord # NoOrder /\ ord.quantity > 0 =>
    /\ cur \in 1 .. Len(book[OppList(ord)]) + 1
    /\ \A i \in 1 .. cur - 1 : ~Crosses(book[OppList(ord)][i], ord)

(* Two orders that could execute against each other never both rest: the    *)
(* exchange matches every order against all that rested when it arrived.    *)
NeverLocked ==
  \A o, p \in AllResting :
    o.instrument = p.instrument /\ o.price = p.price => o.type = p.type

(* No share is created or lost: what an order arrived with is what it       *)
(* executed, what was cancelled and what still rests, for every order and   *)
(* at every iteration of the loop, however many orders it executes against. *)
Accounted(o) == placed[o.id] = executed[o.id] + withdrawn[o.id] + o.quantity

Conservation ==
  /\ \A o \in AllResting : Accounted(o)
  /\ ord # NoOrder => Accounted(ord)
  /\ \A id \in OrderIds \ LiveIds : placed[id] = executed[id] + withdrawn[id]

(* The fill array accounts for every share the running addOrder has         *)
(* executed (orderbook.h:46), across every reallocation of the array.       *)
ReportComplete ==
  ord # NoOrder =>
    SumFunction([i \in DOMAIN fills |-> fills[i].quantity]) = executed[ord.id]

(* Time priority as a trader sees it: when a resting order executes, no     *)
(* older order of its side, instrument and price is left waiting.           *)
NoOvertaking ==
  [][\A o \in AllResting :
       executed'[o.id] > executed[o.id] =>
         \A p \in AllResting' :
           p.price = o.price /\ OwnList(p) = OwnList(o) => o.id <= p.id]_vars

(* Nobody cancels an order once its owner has left, whoever is given the    *)
(* owner's descriptor next (orderbook.h:52): it can only be executed.       *)
OrphansStay ==
  [][\A o \in AllResting :
       o.client_fd = NoFd => withdrawn'[o.id] = withdrawn[o.id]]_vars

(* What makes NeverLocked and ArrivalOrder inductive.                       *)
IndInv ==
  /\ TypeOK
  /\ Filed
  /\ Open
  /\ ArrivalOrder
  /\ Issued
  /\ OneHome
  /\ PassedDoNotCross
  /\ NeverLocked

(* What makes Conservation inductive: an identifier not handed out yet has  *)
(* no quantity placed under it.                                             *)
Unissued == \A id \in OrderIds : id >= next_order_id => placed[id] = 0

ConservationInv ==
  /\ IndInv
  /\ Unissued
  /\ Conservation

(* The book implements price-time matching: the walk's cursor and array     *)
(* are its own business, and every execution is with the oldest match.      *)
Matching ==
  INSTANCE PriceTimeMatching WITH
    open <- AllResting, incoming <- ord, issued <- next_order_id

ImplementsMatching == Matching!Spec
=============================================================================
