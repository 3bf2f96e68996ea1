----------------------------- MODULE Marketplace ------------------------------
(***************************************************************************)
(* What the exchange promises its clients, without descriptors, slots and  *)
(* lists: everybody has a session of their own and owns the orders they    *)
(* placed, the book matches by price and time, and who has left owns       *)
(* nothing.  Exchange implements this.                                     *)
(***************************************************************************)
EXTENDS Integers

CONSTANTS
  Clients, Names, NoName,
  Nobody,  \* the owner of the orders of those who have left
  NoOrder, Instruments, Listings, Quantities, MaxOrders

VARIABLES
  place,                 \* client -> where it is: away | here | left
  session,               \* client -> its session while it is here
  open, incoming, issued \* the book

book == <<open, incoming, issued>>
vars == <<place, session, book>>

(* An order's client_fd is its owner. *)
Book == INSTANCE PriceTimeMatching WITH Fds <- Clients, NoFd <- Nobody

-----------------------------------------------------------------------------
Newcomer == [type |-> "none", username |-> NoName, subscribed |-> {}, closing |-> FALSE]

Here(c) == place[c] = "here"
Heard(c) == Here(c) /\ ~session[c].closing
Trader(c) == session[c].type = "trader"

(* A name is one client's, for as long as it is here. *)
Taken(name) == \E c \in Clients : Here(c) /\ session[c].username = name

(* Nothing but the session of one client changes. *)
Becomes(c, new) ==
  /\ session'[c] = new
  /\ session' = [session EXCEPT ![c] = new]
  /\ UNCHANGED <<place, book>>

Init ==
  /\ place = [c \in Clients |-> "away"]
  /\ session = [c \in Clients |-> Newcomer]
  /\ Book!Init

Arrive(c) ==
  /\ place[c] = "away"
  /\ place' = [place EXCEPT ![c] = "here"]
  /\ UNCHANGED <<session, book>>

Login(c, name) ==
  /\ session[c].type = "none"
  /\ ~Taken(name)
  /\ Becomes(c, [session[c] EXCEPT !.type = "trader", !.username = name])

(* Following instruments makes a client a market-data client for good. *)
Follow(c, instruments) ==
  /\ session[c].type # "trader"
  /\ Becomes(c, [session[c] EXCEPT !.type = "market", !.subscribed = instruments])

Quit(c) == Becomes(c, [session[c] EXCEPT !.closing = TRUE])

Place(c, side, listing, quantity) ==
  /\ Book!Submit(c, side, listing[1], quantity, listing[2])
  /\ UNCHANGED <<place, session>>

Match ==
  /\ Book!Settle \/ \E p \in open : Book!Execute(p)
  /\ UNCHANGED <<place, session>>

(* Only its owner withdraws an order. *)
Cancel(c, p) ==
  /\ p.client_fd = c
  /\ Book!Withdraw(p)
  /\ UNCHANGED <<place, session>>

(* Orders outlive their owner, and nobody inherits them. *)
Leave(c) ==
  /\ Here(c)
  /\ place' = [place EXCEPT ![c] = "left"]
  /\ session' = [session EXCEPT ![c] = Newcomer]
  /\ Book!Disown(c)

Command(c) ==
  /\ Heard(c)
  /\ \/ Quit(c)
     \/ \E name \in Names : Login(c, name)
     \/ \E instruments \in SUBSET Instruments : Follow(c, instruments)
     \/ /\ Trader(c)
        /\ \/ \E side \in {"BUY", "SELL"}, listing \in Listings, quantity \in Quantities :
                Place(c, side, listing, quantity)
           \/ \E p \in open : Cancel(c, p)

Next ==
  \/ Match
  \/ \E c \in Clients : Arrive(c) \/ Leave(c) \/ Command(c)

Spec == Init /\ [][Next]_vars
=============================================================================
