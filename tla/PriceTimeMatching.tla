-------------------------- MODULE PriceTimeMatching --------------------------
(***************************************************************************)
(* What the order book promises, without lists, cursors or arrays: a set   *)
(* of open orders and at most one incoming order.  The incoming order      *)
(* executes against the oldest open order of the other side that has its   *)
(* instrument and price, for as long as there is one, and only then rests. *)
(* OrderBook implements this.                                              *)
(***************************************************************************)
EXTENDS Integers

CONSTANTS Fds, NoFd, NoOrder, Listings, Quantities, MaxOrders

VARIABLES
  open,      \* the orders that rest
  incoming,  \* the order being matched, or NoOrder
  issued     \* how many orders have been accepted

vars == <<open, incoming, issued>>

Matches(o) == {p \in open : /\ p.instrument = o.instrument
                            /\ p.type # o.type
                            /\ p.price = o.price}

Oldest(orders) == {p \in orders : \A q \in orders : p.id <= q.id}

(* `o` after it has executed `quantity` more; nothing is left of a filled order. *)
Reduced(o, quantity) == [o EXCEPT !.quantity = @ - quantity]
Left(o) == IF o.quantity > 0 THEN {o} ELSE {}

-----------------------------------------------------------------------------
Init ==
  /\ open = {}
  /\ incoming = NoOrder
  /\ issued = 0

Submit(fd, side, instrument, quantity, price) ==
  /\ incoming = NoOrder
  /\ issued < MaxOrders
  /\ incoming' = [id |-> issued, quantity |-> quantity, price |-> price,
                  client_fd |-> fd, type |-> side, instrument |-> instrument]
  /\ issued' = issued + 1
  /\ UNCHANGED open

(* As much as both sides have is executed. *)
Execute(p) ==
  /\ incoming # NoOrder
  /\ p \in Oldest(Matches(incoming))
  /\ \E quantity \in 1 .. incoming.quantity :
       /\ quantity <= p.quantity
       /\ quantity = p.quantity \/ quantity = incoming.quantity
       /\ incoming' = Reduced(incoming, quantity)
       /\ open' = (open \ {p}) \cup Left(Reduced(p, quantity))
  /\ UNCHANGED issued

(* The incoming order rests only when nothing open matches it. *)
Settle ==
  /\ incoming # NoOrder
  /\ incoming.quantity > 0 => Matches(incoming) = {}
  /\ open' = open \cup Left(incoming)
  /\ incoming' = NoOrder
  /\ UNCHANGED issued

Withdraw(p) ==
  /\ incoming = NoOrder
  /\ p.client_fd # NoFd
  /\ open' = open \ {p}
  /\ UNCHANGED <<incoming, issued>>

(* A client leaves: its orders stay open and belong to nobody. *)
Disown(fd) ==
  /\ incoming = NoOrder
  /\ open' = {IF p.client_fd = fd THEN [p EXCEPT !.client_fd = NoFd] ELSE p : p \in open}
  /\ UNCHANGED <<incoming, issued>>

Next ==
  \/ \E fd \in Fds, side \in {"BUY", "SELL"}, listing \in Listings, quantity \in Quantities :
       Submit(fd, side, listing[1], quantity, listing[2])
  \/ \E p \in open : Execute(p) \/ Withdraw(p)
  \/ Settle
  \/ \E fd \in Fds : Disown(fd)

Spec == Init /\ [][Next]_vars
=============================================================================
