------------------------------ MODULE EventLoop ------------------------------
(***************************************************************************)
(* The single-threaded kqueue loop of exchange_server.c, with the accept   *)
(* and dispatch code of includes/server.c and the read loop and teardown   *)
(* of includes/io.c.                                                       *)
(*                                                                         *)
(* The kernel side is what the code relies on: a backlog of connections, a *)
(* receive queue per socket, descriptors handed out lowest first, and a    *)
(* list of active filters that kevent() copies out a batch at a time.  A   *)
(* client filter is edge-triggered (EV_CLEAR): copying it out deactivates  *)
(* it until the socket changes again.  The batch is a private copy, so the *)
(* kernel cannot take back an event the loop has not looked at yet.        *)
(*                                                                         *)
(* Lines are whole here, and of the output only its state is kept: whether *)
(* some of it is stored in outbuf and whether the socket takes more.       *)
(* LineFraming has the bytes of the input side, ClientOutput those of the  *)
(* output side.                                                            *)
(***************************************************************************)
EXTENDS Integers, Sequences, SequencesExt

CONSTANTS
  Clients,         \* each connects at most once
  Fds,             \* the descriptors the process may still open
  NoClient,        \* a NULL slot of the connection table
  Listener,        \* server_fd
  MIN_CAPACITY,    \* config.h:6, the first size of the connection table
  MAX_EVENTS,      \* config.h:7, the length of the event array
  MaxLines,        \* bound: how many lines each client sends
  Endless,         \* clients that never stop sending
  Window,          \* lines the kernel holds of one client
  AllocMayFail,    \* whether an allocation, a kernel call or a call of main() may fail
  SignalsArrive    \* whether SIGINT or SIGTERM is ever delivered

ASSUME ClientAssumption == NoClient \notin Clients
ASSUME FdAssumption == Fds \subseteq Nat /\ Listener \notin Fds
ASSUME CapacityAssumption == MIN_CAPACITY \in Nat \ {0} /\ MAX_EVENTS \in Nat \ {0}
ASSUME BoundAssumption == MaxLines \in [Clients -> Nat] /\ Window \in Nat \ {0}
ASSUME SenderAssumption == Endless \subseteq Clients
ASSUME SwitchAssumption == AllocMayFail \in BOOLEAN /\ SignalsArrive \in BOOLEAN

VARIABLES
  \* the clients and the kernel
  link,      \* client -> where its connection is
  recv,      \* client -> lines the server has not read
  sent,      \* client -> how many lines it has sent
  fin,       \* clients that have shut down their sending side
  hup,       \* clients whose connection is disconnected both ways
  full,      \* clients whose socket refused a write and has had no room since
  backlog,   \* connections accept() has not returned
  ready,     \* active filters, in activation order
  \* the server process
  pc,        \* where the thread is
  running,   \* exchange_server.c:28
  events,    \* the batch kevent() filled in
  pos,       \* index of the event the loop is at
  conns,     \* descriptor -> the client whose ClientConnection the slot holds
  curr_cap,  \* length of the connection table
  stored,    \* clients whose outbuf holds output (outlen > 0)
  closing    \* clients whose QUIT has been processed

outVars == <<full, stored, closing>>
netVars == <<link, recv, sent, fin, hup, backlog>>
serverVars == <<running, events, pos, conns, curr_cap>>
vars == <<netVars, ready, pc, serverVars, outVars>>

Lines == {"order", "QUIT"}
Filters == {"READ", "WRITE"}
Knotes == (Fds \X Filters) \cup {<<Listener, "READ">>}

(* struct kevent: ident, filter, and the only flag the code looks at. *)
Event == [ident : Fds \cup {Listener}, filter : Filters, eof : BOOLEAN]

-----------------------------------------------------------------------------
(* The elements of a list that are in a set, in their order. *)
Among(list, set) ==
  LET among[i \in 0 .. Len(list)] ==
        IF i = 0 THEN <<>>
        ELSE IF list[i] \in set THEN Append(among[i - 1], list[i])
        ELSE among[i - 1]
  IN  among[Len(list)]

-----------------------------------------------------------------------------
(* Slips: what each definition below would be after a plausible mistake.   *)
(* No action uses them; they exist to be put in a definition's place, so   *)
(* that a property can be seen to notice the mistake.                      *)

SlipShortReadEnds(c) == TRUE
SlipClientAsIdent(list, fd, c) == list \o << <<c, "READ">>, <<c, "WRITE">> >>
SlipDoublesOnce(cap, fd) == {cap * 2}
SlipReadOnly(list, fd) == Among(list, Knotes \ {<<fd, "READ">>})
SlipLastSlotMissed(fd) == fd + 1 < curr_cap /\ conns[fd] # NoClient
SlipEdgeTriggered(batch) == <<>>
SlipNeverTold == TRUE
SlipFlushedStays(c) == FALSE

-----------------------------------------------------------------------------
(* Helpers *)

Holder(fd) == conns[fd]
FdOf(c) == CHOOSE fd \in Fds : conns[fd] = c
FreeFds == {fd \in Fds : conns[fd] = NoClient}
LowestFree == CHOOSE fd \in FreeFds : \A other \in FreeFds : fd <= other

(* read() on the socket would not return EAGAIN. *)
Readable(c) == recv[c] # <<>> \/ c \in fin \/ c \in hup

(* write() would not return EAGAIN. *)
Writable(c) == c \notin full \/ c \in hup

(* Whether a filter's condition holds when kevent() scans it. *)
Holds(knote) ==
  IF knote[1] = Listener THEN backlog # <<>>
  ELSE /\ Holder(knote[1]) # NoClient
       /\ IF knote[2] = "READ" THEN Readable(Holder(knote[1])) ELSE Writable(Holder(knote[1]))

(* The active filters that kevent() would return. *)
Live == Among(ready, {knote \in Knotes : Holds(knote)})

(* A filter is listed once, however often the socket changes. *)
Activate(list, knote) == IF Contains(list, knote) THEN list ELSE Append(list, knote)

(* What becomes active when the socket of an accepted client changes. *)
ActivatedFor(c, filters) ==
  LET woken(list, filter) ==
        IF link[c] = "open" /\ filter \in filters
        THEN Activate(list, <<FdOf(c), filter>>) ELSE list
  IN  woken(woken(ready, "READ"), "WRITE")

EventOf(knote) ==
  [ident |-> knote[1], filter |-> knote[2],
   eof |-> knote[1] # Listener /\ (\/ Holder(knote[1]) \in hup
                                   \/ knote[2] = "READ" /\ Holder(knote[1]) \in fin)]

(* growConns doubles the table until the descriptor is an index of it: the  *)
(* length half as long was not enough.                                      *)
GrownCapacity(cap, fd) == {new \in fd + 1 .. 2 * fd : \E k \in 1 .. fd : new = cap * 2^k}

(* The table when there is room for a descriptor. *)
RoomFor(fd) == IF fd < curr_cap THEN {curr_cap} ELSE GrownCapacity(curr_cap, fd)

(* The events of a batch the loop has still to look at, and the one it is at. *)
Pending == {events[i] : i \in pos .. Len(events)}
Ev == events[pos]
Dispatching == pc = "dispatch" /\ pos <= Len(events)

(* Sending to the clients `kept` leaves something in their outbufs: behind  *)
(* what is stored already, or because the socket has no room for all of it. *)
(* A torn down connection's outbuf is freed.                                *)
Output(kept, freed) ==
  /\ stored' = (stored \cup kept) \ freed
  /\ full' = (full \cup (kept \ stored)) \ freed

-----------------------------------------------------------------------------
(* Clients and the network *)

Init ==
  /\ link = [c \in Clients |-> "away"]
  /\ recv = [c \in Clients |-> <<>>]
  /\ sent = [c \in Clients |-> 0]
  /\ fin = {}
  /\ hup = {}
  /\ backlog = <<>>
  /\ ready = <<>>
  /\ pc = "start"
  /\ running = TRUE
  /\ events = <<>>
  /\ pos = 1
  /\ conns = [fd \in Fds |-> NoClient]
  /\ curr_cap = MIN_CAPACITY
  /\ full = {}
  /\ stored = {}
  /\ closing = {}

Present(c) == link[c] \in {"backlog", "open"} /\ c \notin hup

(* The handshake completes and the listening socket becomes readable, which *)
(* only a filter that is already registered notices.                        *)
Connect(c) ==
  /\ link[c] = "away"
  /\ pc \notin {"start", "done"}
  /\ link' = [link EXCEPT ![c] = "backlog"]
  /\ backlog' = Append(backlog, c)
  /\ ready' = IF pc = "arm" THEN ready ELSE Activate(ready, <<Listener, "READ">>)
  /\ UNCHANGED <<recv, sent, fin, hup, pc, serverVars, outVars>>

(* A line arrives, be it after a QUIT. *)
Send(c, line) ==
  /\ Present(c)
  /\ c \notin fin
  /\ c \in Endless \/ sent[c] < MaxLines[c]
  /\ Len(recv[c]) < Window
  /\ recv' = [recv EXCEPT ![c] = Append(@, line)]
  /\ sent' = [sent EXCEPT ![c] = IF c \in Endless THEN 1 ELSE @ + 1]
  /\ ready' = ActivatedFor(c, {"READ"})
  /\ UNCHANGED <<link, fin, hup, backlog, pc, serverVars, outVars>>

(* The client closes its sending side: a FIN after whatever it has sent. *)
HalfClose(c) ==
  /\ Present(c)
  /\ c \notin fin
  /\ fin' = fin \cup {c}
  /\ ready' = ActivatedFor(c, {"READ"})
  /\ UNCHANGED <<link, recv, sent, hup, backlog, pc, serverVars, outVars>>

(* The connection is reset: both directions are over. *)
Disconnect(c) ==
  /\ Present(c)
  /\ hup' = hup \cup {c}
  /\ ready' = ActivatedFor(c, {"READ", "WRITE"})
  /\ UNCHANGED <<link, recv, sent, fin, backlog, pc, serverVars, outVars>>

(* The client reads what its full socket holds, and there is room again. *)
Take(c) ==
  /\ Present(c)
  /\ c \in full
  /\ full' = full \ {c}
  /\ ready' = ActivatedFor(c, {"WRITE"})
  /\ UNCHANGED <<netVars, pc, serverVars, stored, closing>>

(* requestShutdown; a thread asleep in kevent() wakes up with EINTR. *)
Signal ==
  /\ SignalsArrive
  /\ running
  /\ running' = FALSE
  /\ pc' = IF pc = "asleep" THEN "test" ELSE pc
  /\ UNCHANGED <<netVars, ready, events, pos, conns, curr_cap, outVars>>

-----------------------------------------------------------------------------
(* main() before the loop *)

(* Everything up to listen(): from here on clients connect. *)
Listen ==
  /\ pc = "start"
  /\ pc' = "arm"
  /\ UNCHANGED <<netVars, ready, serverVars, outVars>>

(* EV_ADD lists a filter whose condition already holds. *)
Armed == IF backlog = <<>> THEN <<>> ELSE << <<Listener, "READ">> >>

(* kqueue(), the registration of the listening socket, and the table. *)
Arm ==
  /\ pc = "arm"
  /\ ready' = Armed
  /\ pc' = "test"
  /\ UNCHANGED <<netVars, serverVars, outVars>>

(* Clients that have not been accepted when the process ends. *)
BacklogDropped ==
  /\ link' = [c \in Clients |-> IF link[c] = "backlog" THEN "refused" ELSE link[c]]
  /\ backlog' = <<>>

(* One of the calls fails and main() returns 1. *)
StartFails ==
  /\ AllocMayFail
  /\ pc \in {"start", "arm"}
  /\ BacklogDropped
  /\ pc' = "done"
  /\ UNCHANGED <<recv, sent, fin, hup, ready, serverVars, outVars>>

-----------------------------------------------------------------------------
(* The loop *)

(* while (running), exchange_server.c:156. *)
KeepGoing == running

Test ==
  /\ pc = "test"
  /\ pc' = IF KeepGoing THEN "enter" ELSE "close"
  /\ UNCHANGED <<netVars, ready, serverVars, outVars>>

(* The listening filter is armed without EV_CLEAR. *)
Relisted(batch) == Among(batch, {<<Listener, "READ">>})

(* kevent() copies out up to MAX_EVENTS active filters whose condition     *)
(* holds, oldest first.  The listening filter is level-triggered and stays *)
(* listed behind the others; the clients' filters are cleared.             *)
Deliver ==
  LET n == IF Len(Live) < MAX_EVENTS THEN Len(Live) ELSE MAX_EVENTS
      batch == SubSeq(Live, 1, n)
  IN  /\ n > 0
      /\ events' = [i \in 1 .. n |-> EventOf(batch[i])]
      /\ ready' = SubSeq(Live, n + 1, Len(Live)) \o Relisted(batch)
      /\ pos' = 1
      /\ pc' = "dispatch"
      /\ UNCHANGED <<netVars, running, conns, curr_cap, outVars>>

Sleep ==
  /\ pc = "enter"
  /\ Live = <<>>
  /\ pc' = "asleep"
  /\ UNCHANGED <<netVars, ready, serverVars, outVars>>

Kevent == pc \in {"enter", "asleep"} /\ Deliver

(* kevent() fails for another reason than a signal, which ends the loop. *)
KeventFails ==
  /\ AllocMayFail
  /\ pc = "enter"
  /\ pc' = "close"
  /\ UNCHANGED <<netVars, ready, serverVars, outVars>>

(* The end of the batch. *)
EndBatch ==
  /\ pc = "dispatch"
  /\ pos > Len(events)
  /\ pc' = "test"
  /\ events' = <<>>
  /\ pos' = 1
  /\ UNCHANGED <<netVars, ready, running, conns, curr_cap, outVars>>

FiltersDeleted(list, fd) == Among(list, Knotes \ ({fd} \X Filters))

(* removeClient: both filters are deleted, outbuf is freed, the slot is     *)
(* cleared, and the descriptor is closed with what the socket held, so it   *)
(* is the next one accept() may hand out.  The line that led to it may have *)
(* sent something to `kept`.                                                *)
RemoveClientAfter(fd, kept) ==
  /\ link' = [link EXCEPT ![conns[fd]] = "closed"]
  /\ recv' = [recv EXCEPT ![conns[fd]] = <<>>]
  /\ conns' = [conns EXCEPT ![fd] = NoClient]
  /\ ready' = FiltersDeleted(ready, fd)
  /\ Output(kept, {conns[fd]})
  /\ UNCHANGED <<sent, fin, hup, backlog, running, events, curr_cap>>

RemoveClient(fd) == RemoveClientAfter(fd, {})

(* handleClientEvent's first test: the slot is there to be used. *)
Usable(fd) == fd < curr_cap /\ conns[fd] # NoClient

(* Its second test: the event itself says that the connection is over. *)
Disconnected(event) == event.filter = "WRITE" /\ event.eof

Accepting == Dispatching /\ Ev.ident = Listener
Handling == Dispatching /\ Ev.ident \in Fds /\ Usable(Ev.ident)
Self == conns[Ev.ident]

(* A client an earlier event of the batch tore down. *)
IgnoreEvent ==
  /\ Dispatching
  /\ Ev.ident # Listener
  /\ ~Usable(Ev.ident)
  /\ pos' = pos + 1
  /\ UNCHANGED <<netVars, ready, pc, running, events, conns, curr_cap, outVars>>

HandleDisconnect ==
  /\ Handling
  /\ Disconnected(Ev)
  /\ RemoveClient(Ev.ident)
  /\ pos' = pos + 1
  /\ UNCHANGED <<pc, closing>>

-----------------------------------------------------------------------------
(* flushToClient() *)

Flushing == Handling /\ Ev.filter = "WRITE" /\ ~Disconnected(Ev)

(* Its result when nothing is left: a closing connection can go (io.c:36). *)
Finished(c) == c \in closing

(* Nothing was stored, or all of it can be written. *)
NothingLeft == Self \notin stored \/ Self \notin full \cup hup

FlushAll ==
  /\ Flushing
  /\ NothingLeft
  /\ ~Finished(Self)
  /\ stored' = stored \ {Self}
  /\ pos' = pos + 1
  /\ UNCHANGED <<netVars, ready, pc, running, events, conns, curr_cap, full, closing>>

(* EAGAIN: the socket takes a part of it, or nothing. *)
FlushSome ==
  /\ Flushing
  /\ Self \in stored \ hup
  /\ full' = full \cup {Self}
  /\ pos' = pos + 1
  /\ UNCHANGED <<netVars, ready, pc, running, events, conns, curr_cap, stored, closing>>

(* The last byte of a closing connection is written, or write() fails. *)
FlushEnds ==
  /\ Flushing
  /\ (NothingLeft /\ Finished(Self)) \/ Self \in stored \cap hup
  /\ RemoveClient(Ev.ident)
  /\ pos' = pos + 1
  /\ UNCHANGED <<pc, closing>>

-----------------------------------------------------------------------------
(* communicate(): read until EAGAIN, at the grain of one line *)

(* A closing connection is not read (io.c:181). *)
Unread(c) == c \in closing
Reading == Handling /\ Ev.filter = "READ" /\ ~Unread(Self)
AtLine(line) == Reading /\ recv[Self] # <<>> /\ Head(recv[Self]) = line
Popped == [recv EXCEPT ![Self] = Tail(@)]

(* Whom a line can make the server write to: an open connection that has    *)
(* said anything, since the others neither trade nor subscribe.             *)
Told == {c \in Clients : link[c] = "open" /\ sent[c] > 0 /\ c \notin hup}

(* A line is processed, and its client and others are sent to. *)
ReadLine ==
  /\ AtLine("order")
  /\ \E kept \in SUBSET Told : Output(kept, {})
  /\ recv' = Popped
  /\ UNCHANGED <<link, sent, fin, hup, backlog, ready, pc, serverVars, closing>>

(* What the client is to be sent cannot be written, stored or allocated. *)
LineFails ==
  /\ AtLine("order")
  /\ Self \in hup \cup stored \/ AllocMayFail
  /\ \E kept \in SUBSET (Told \ {Self}) : RemoveClientAfter(Ev.ident, kept)
  /\ pos' = pos + 1
  /\ UNCHANGED <<pc, closing>>

(* quitUser: the connection ends if its OK was written or could not be sent. *)
ReadQuitEnds ==
  /\ AtLine("QUIT")
  /\ closing' = closing \cup {Self}
  /\ RemoveClient(Ev.ident)
  /\ pos' = pos + 1
  /\ UNCHANGED pc

(* If it was stored, communicate() returns without reading on (io.c:229)    *)
(* and leaves the rest to flushToClient.                                    *)
ReadQuitStored ==
  /\ AtLine("QUIT")
  /\ closing' = closing \cup {Self}
  /\ Self \in stored \/ Self \notin hup
  /\ Output({Self}, {})
  /\ recv' = Popped
  /\ pos' = pos + 1
  /\ UNCHANGED <<link, sent, fin, hup, backlog, ready, pc, running, events, conns, curr_cap>>

(* read() returns zero or fails. *)
ReadOver ==
  /\ Reading
  /\ recv[Self] = <<>>
  /\ Self \in fin \cup hup
  /\ RemoveClient(Ev.ident)
  /\ pos' = pos + 1
  /\ UNCHANGED <<pc, closing>>

(* EAGAIN: everything that had arrived has been read. *)
Drained(c) == ~Readable(c)

EndRead ==
  /\ Handling
  /\ Ev.filter = "READ"
  /\ Unread(Self) \/ Drained(Self)
  /\ pos' = pos + 1
  /\ UNCHANGED <<netVars, ready, pc, running, events, conns, curr_cap, outVars>>

-----------------------------------------------------------------------------
(* acceptClients(): accept until EAGAIN *)

(* registerClient arms both filters: a new socket is writable at once, and *)
(* readable if lines or a FIN came before it was accepted.                 *)
Registered(list, fd, c) ==
  Activate(IF Readable(c) THEN Activate(list, <<fd, "READ">>) ELSE list, <<fd, "WRITE">>)

Accept ==
  /\ Accepting
  /\ backlog # <<>>
  /\ FreeFds # {}
  /\ LET c == Head(backlog)
         fd == LowestFree
     IN  /\ backlog' = Tail(backlog)
         /\ link' = [link EXCEPT ![c] = "open"]
         /\ conns' = [conns EXCEPT ![fd] = c]
         /\ curr_cap' \in RoomFor(fd)
         /\ ready' = Registered(ready, fd, c)
  /\ UNCHANGED <<recv, sent, fin, hup, pc, running, events, pos, outVars>>

(* growConns or registerClient fails and the new descriptor is closed, or  *)
(* the connection was already reset and accept() says ECONNABORTED.  When  *)
(* it is registerClient, the table has grown all the same.                 *)
Refuse ==
  /\ Accepting
  /\ backlog # <<>>
  /\ FreeFds # {}
  /\ \/ Head(backlog) \in hup /\ UNCHANGED curr_cap
     \/ AllocMayFail /\ curr_cap' \in {curr_cap} \cup RoomFor(LowestFree)
  /\ link' = [link EXCEPT ![Head(backlog)] = "refused"]
  /\ backlog' = Tail(backlog)
  /\ UNCHANGED <<recv, sent, fin, hup, ready, pc, running, events, pos, conns, outVars>>

(* EAGAIN, or EMFILE when every descriptor is in use. *)
EndAccept ==
  /\ Accepting
  /\ backlog = <<>> \/ FreeFds = {}
  /\ pos' = pos + 1
  /\ UNCHANGED <<netVars, ready, pc, running, events, conns, curr_cap, outVars>>

-----------------------------------------------------------------------------
(* Shutdown *)

(* The slots are closed in table order, exchange_server.c:185. *)
CloseSlot ==
  /\ pc = "close"
  /\ \E fd \in Fds :
       /\ Usable(fd)
       /\ \A other \in Fds : other < fd => ~Usable(other)
       /\ RemoveClient(fd)
  /\ UNCHANGED <<pc, pos, closing>>

(* The listening socket is closed and its backlog with it. *)
Exit ==
  /\ pc = "close"
  /\ \A fd \in Fds : ~Usable(fd)
  /\ BacklogDropped
  /\ ready' = <<>>
  /\ pc' = "done"
  /\ UNCHANGED <<recv, sent, fin, hup, serverVars, outVars>>

-----------------------------------------------------------------------------
Server ==
  \/ Listen \/ Arm \/ StartFails
  \/ Test \/ Sleep \/ Kevent \/ KeventFails \/ EndBatch
  \/ IgnoreEvent \/ HandleDisconnect
  \/ FlushAll \/ FlushSome \/ FlushEnds
  \/ ReadLine \/ LineFails \/ ReadQuitEnds \/ ReadQuitStored \/ ReadOver \/ EndRead
  \/ Accept \/ Refuse \/ EndAccept
  \/ CloseSlot \/ Exit

Environment ==
  \/ \E c \in Clients :
       \/ Connect(c)
       \/ \E line \in Lines : Send(c, line)
       \/ HalfClose(c)
       \/ Disconnect(c)
       \/ Take(c)
  \/ Signal

Next == Server \/ Environment

Spec == Init /\ [][Next]_vars

(* The thread runs whenever it can.  Nothing is assumed of the clients.    *)
FairSpec == Spec /\ WF_vars(Server)

-----------------------------------------------------------------------------
(* Properties *)

(* Every variable has its type.                                             *)
TypeOK ==
  /\ link \in [Clients -> {"away", "backlog", "open", "closed", "refused"}]
  /\ recv \in [Clients -> Seq(Lines)]
  /\ sent \in [Clients -> Nat]
  /\ fin \subseteq Clients
  /\ hup \subseteq Clients
  /\ backlog \in Seq(Clients)
  /\ ready \in Seq(Knotes)
  /\ pc \in {"start", "arm", "test", "enter", "asleep", "dispatch", "close", "done"}
  /\ running \in BOOLEAN
  /\ events \in Seq(Event)
  /\ pos \in Nat \ {0}
  /\ conns \in [Fds -> Clients \cup {NoClient}]
  /\ curr_cap \in Nat
  /\ full \subseteq Clients
  /\ stored \subseteq Clients
  /\ closing \subseteq Clients

(* The connection table and the open sockets agree, on every path through   *)
(* accept, growth, failure and teardown: an open socket has one slot, within *)
(* the table, and a slot has an open socket.                                *)
TableMatchesSockets ==
  /\ \A c \in Clients : link[c] = "open" <=> \E fd \in Fds : conns[fd] = c
  /\ \A fd, other \in Fds : conns[fd] # NoClient /\ conns[fd] = conns[other] => fd = other
  /\ \A fd \in Fds : conns[fd] # NoClient => fd < curr_cap

Listed(fd, filter) ==
  \/ <<fd, filter>> \in ToSet(ready)
  \/ \E event \in Pending : event.ident = fd /\ event.filter = filter

(* No edge is lost: input the server has still to read, a disconnection it  *)
(* has not seen, and room for output it has stored are announced by a       *)
(* filter still listed in the kernel or by an event of the batch still to   *)
(* be handled.  An edge-triggered filter that was copied out and not used   *)
(* up would break this (server.c:74).  Only a connection that has quit is   *)
(* left with input that nothing announces: it is not read again (io.c:181). *)
NoLostEdge ==
  /\ \A fd \in Fds :
       conns[fd] # NoClient =>
         /\ Readable(conns[fd]) /\ conns[fd] \notin closing => Listed(fd, "READ")
         /\ conns[fd] \in hup => Listed(fd, "WRITE")
         /\ conns[fd] \in stored \ full => Listed(fd, "WRITE")
  /\ backlog # <<>> /\ pc # "arm" => <<Listener, "READ">> \in ToSet(ready)

(* The kernel lists filters of open descriptors only: teardown removes them *)
(* before the descriptor can be handed out again (io.c:96).                 *)
NoOrphanFilter ==
  \A knote \in ToSet(ready) : knote[1] # Listener => conns[knote[1]] # NoClient

(* When the process ends no connection is left open or waiting.             *)
ShutdownClosesAll ==
  pc = "done" => \A c \in Clients : link[c] \notin {"open", "backlog"}

(* One client disappearing never touches another client's state             *)
(* (report.tex): the server closes a connection only if its own client said *)
(* QUIT, closed or was disconnected.  An event of the batch that is older   *)
(* than the connection it is applied to breaks this.                        *)
OnlyLeaversAreClosed ==
  \A c \in Clients :
    link[c] = "closed" => c \in fin \cup hup \cup closing \/ pc \in {"close", "done"}

(* A connection that has quit, whose client does not take its last output. *)
HeldUp(c) == c \in closing \cap full

(* A client that has left is reaped, its slot and descriptor with it.  Only *)
(* one that has quit before, with output stored, is not read any more, so   *)
(* that its FIN goes unnoticed: it stays until it takes that output or      *)
(* resets the connection, and with either it goes (io.c:36, 181).           *)
LeaversReaped ==
  \A c \in Clients :
    /\ (link[c] = "open" /\ c \in hup) ~> link[c] = "closed"
    /\ (link[c] = "open" /\ c \in fin \cup closing) ~> (link[c] = "closed" \/ HeldUp(c))

(* Every line that reaches an accepted connection before its QUIT is read,  *)
(* or the connection ends.  What follows a QUIT is not read: it goes with   *)
(* the connection, as soon as the client takes its output (io.c:229).       *)
LinesServed ==
  \A c \in Clients :
    (link[c] = "open" /\ recv[c] # <<>>)
      ~> (recv[c] = <<>> \/ link[c] = "closed" \/ HeldUp(c))

(* A waiting connection is accepted unless every descriptor is in use.      *)
BacklogServed ==
  \A c \in Clients : link[c] = "backlog" ~> (link[c] # "backlog" \/ FreeFds = {})

(* No client can stall another (report.tex:250): a line of an accepted      *)
(* client is read, however much the others send.  communicate() leaves a    *)
(* connection only when its input is empty (io.c:184).                      *)
Waits(c) == link[c] = "open" /\ recv[c] # <<>> /\ c \notin hup \cup closing
NoClientStallsAnother == \A c \in Clients \ Endless : Waits(c) ~> ~Waits(c)

(* After SIGINT or SIGTERM the server ends.  The comment at                 *)
(* exchange_server.c:25 claims the loop always gets a chance to notice.     *)
ShutdownNoticed == ~running ~> pc = "done"

(* What the code does ensure: a request made while the loop runs is noticed *)
(* once the clients leave communicate() and acceptClients() something to    *)
(* finish, and one made while the loop is asleep wakes it, because kevent() *)
(* is not restarted (exchange_server.c:25, 162).  Only one made between the *)
(* test of `running` and falling asleep waits for the next event.           *)
ShutdownNoticedAwake ==
  /\ (~running /\ pc \in {"test", "dispatch", "close"}) ~> pc = "done"
  /\ [][pc = "asleep" /\ running /\ ~running' => pc' = "test"]_vars
=============================================================================
